---------------------------- MODULE Spec2Model ----------------------------
(***************************************************************************)
(* Model of google/streaming_hdp.                                          *)
(*                                                                         *)
(*   devtools.Connection   src/unnamed/part_000   (SpecConn, SpecConnLive) *)
(*   dom.DOM               src/unnamed/part_006   (SpecDOM)                *)
(*   chrome.Instance       src/unnamed/part_008   (SpecChrome)             *)
(*   chrome.InstanceManager src/unnamed/part_007  (SpecChrome,             *)
(*                                                 SpecRelease)            *)
(*   preview handlers      src/previews           (SpecHandlers,           *)
(*                                                 SpecStream, SpecSan)    *)
(*                                                                         *)
(* The subsystems share one state vector; each specification runs the      *)
(* actions of one subsystem and leaves the others in their initial state.  *)
(***************************************************************************)
EXTENDS Integers, Sequences, FiniteSets, TLC

(***************************************************************************)
(* Bounds of the model.                                                    *)
(***************************************************************************)
\* Total number of method IDs handed out on one Connection.
MaxCalls == 2
\* Number of event frames the browser sends on one Connection.
MaxEvents == 2
\* Capacity of Connection.bufferedEvents.  The source sets 1000
\* (part_000:43); the model scales it down so that the buffer fills.
tempBufferSize == 1
\* Number of NextEvent calls recorded after Close has returned: enough to
\* drain a full buffer and see the end of the stream.
MaxPostClose == tempBufferSize + 1

(***************************************************************************)
(* Generic helpers.                                                        *)
(***************************************************************************)
Range(s) == {s[i] : i \in 1..Len(s)}

(***************************************************************************)
(* devtools.Connection (src/unnamed/part_000)                              *)
(***************************************************************************)
VARIABLES
  nextMethodID,     \* Connection.nextMethodID
  results,          \* Connection.results: method ID -> caller owning the sink
  messageReceived,  \* Connection.messageReceived
  bufferedEvents,   \* Connection.bufferedEvents: content of the channel
  bufClosed,        \* bufferedEvents has been closed
  sockOpen,         \* Connection.sock # nil
  cpc,              \* position of each calling task
  cid,              \* method ID held by each calling task
  wpc,              \* position of sendMessages
  rpc,              \* position of receiveMessages
  rpend,            \* frame receiveMessages is processing
  closePc,          \* position of the task running Close
  fatal,            \* log.Fatal has ended the process
  wire,             \* method IDs written to the socket
  replied,          \* method IDs the browser has replied to
  inbox,            \* frames in flight from the browser to the reader
  evSent,           \* event frames the browser has sent, in order
  allocated,        \* history: [id, wait] of every newMethodID call
  delivered,        \* history: per Result handed to a caller, the caller's method ID,
                    \*   Result.ID and whether Result.Type is a ResultType value
  dropped,          \* history: method IDs of replies dropped as stale
  nextEvents,       \* history: events returned by NextEvent, in order
  bufAtClose,       \* history: content of bufferedEvents when Close returned
  postClose         \* history: outcomes of NextEvent calls after Close returned

connVars == <<nextMethodID, results, messageReceived, bufferedEvents, bufClosed,
              sockOpen, cpc, cid, wpc, rpc, rpend, closePc, fatal, wire, replied,
              inbox, evSent, allocated, delivered, dropped, nextEvents,
              bufAtClose, postClose>>

\* dom.DOM (src/unnamed/part_006) and the history of its calls.
VARIABLES
  nodeIDMapping,    \* DOM.nodeIDMapping: node ID -> backend node ID
  backendNodeIDs,   \* DOM.backendNodeIDs
  nodeTypeMapping,  \* DOM.nodeTypeMapping: backend node ID -> node type
  emitted,          \* history: the updates the DOM model has returned, in order
  underScript,      \* history: per update, whether the node it is about had a
                    \*   script element among its ancestors when it was returned
  docParent,        \* history: backend node ID -> backend ID of the parent the
                    \*   accepted calls gave for it
  docKind,          \* history: backend node ID -> node name the accepted calls
                    \*   gave for it
  domOps,           \* number of calls made on the DOM model
  domErr            \* the error the last call returned, "" for nil

domVars == <<nodeIDMapping, backendNodeIDs, nodeTypeMapping, emitted, underScript,
             docParent, docKind, domOps, domErr>>

\* What each subsystem's actions leave alone.
\* chrome.InstanceManager (src/unnamed/part_007), chrome.Instance
\* (src/unnamed/part_008) per instance ID, and the history of their calls.
VARIABLES
  nextInstanceID,   \* InstanceManager.nextInstanceID
  instanceQueue,    \* InstanceManager.instanceQueue
  instances,        \* InstanceManager.instances: the instance IDs in the map
  urls,             \* InstanceManager.urls: the instance IDs in the map
  apc,              \* where the addInstance goroutine is
  aid,              \* addInstance: id
  tryCounter,       \* Instance.Connect: tryCounter
  Command,          \* Instance.Command: the Chrome process
  userDir,          \* whether the directory Instance.userDir exists
  devtoolsConn,     \* Instance.devtoolsConn
  ready,            \* Instance.ready is closed
  pageLoadCompletes,\* Instance.pageLoadCompletes
  timeoutTimer,     \* Instance.timeoutTimer
  rsPc,             \* where each goroutine calling ResetTimeout is
  rsInst,           \* ResetTimeout: the instance it was called on
  beforeTimedout,   \* ResetTimeout: beforeTimedout
  resetReturns,     \* history: what the latest ResetTimeout call to return returned,
                    \*   whether the timer had expired by then and is armed after it
  waitPassed,       \* history: Instance.Wait returned nil
  dialAttempts,     \* history: number of devtools.NewConnection calls of the
                    \*   Connect call of addInstance
  connectFailed,    \* history: every dial of Connect failed
  connectResult,    \* history: what Connect returned
  killSent,         \* history: Process.Kill was called
  datReturned       \* history: DisconnectAndTerminate returned on a connected instance

chromeVars == <<nextInstanceID, instanceQueue, instances, urls, apc, aid, tryCounter,
                Command, userDir, devtoolsConn, ready, pageLoadCompletes, timeoutTimer,
                rsPc, rsInst, beforeTimedout, resetReturns, waitPassed,
                dialAttempts, connectFailed, connectResult, killSent, datReturned>>

\* hdpreviews.Handler.ServeHTTP (src/previews/hdpreviews/hdpreviews.go) for
\* one preview request, with its two goroutines.
VARIABLES
  hpc,              \* where ServeHTTP is
  instanceID,       \* ServeHTTP: instanceID
  statusCodeChan,   \* ServeHTTP: statusCodeChan
  probe,            \* where the goroutine of lines 73-80 is
  originResponse,   \* that goroutine's response: its status code, 0 when nil
  written,          \* the status codes passed to rw.WriteHeader, in order
  loaded,           \* ServeHTTP: loaded
  loopPc,           \* where the goroutine of lines 103-122 is
  pageStabilized    \* that goroutine's pageStabilized

batchVars == <<hpc, instanceID, statusCodeChan, probe, originResponse, written, loaded,
               loopPc, pageStabilized>>

\* streaminghdpreviews.Handler.ServeHTTP, which acquires an instance for a
\* client, and stream.Handler.ServeHTTP for the request of that client
\* (src/previews/streaminghdpreviews).
VARIABLES
  spc,              \* where the two handlers are
  chromeID,         \* streaminghdpreviews: chromeID; stream: instanceID
  sEnd,             \* stream: what made the event loop return, "" while it runs
  sFrames,          \* stream: number of update batches written to the client
  sErr,             \* stream: the error of handling the last event, "" when none
  sspc,             \* where the handler of the slow-script request is
  slowWritten       \* the status codes that handler passed to rw.WriteHeader

streamVars == <<spc, chromeID, sEnd, sFrames, sErr, sspc, slowWritten>>

\* removeScriptTags (src/previews/hdpreviews/hdpreviews.go).
VARIABLES
  dom,              \* removeScriptTags: the tokens of dom
  z,                \* how many tokens the tokenizer z has returned
  response,         \* removeScriptTags: response, as the pieces appended to it
  firstToken,       \* removeScriptTags: firstToken
  lastTokenWasScript, \* removeScriptTags: lastTokenWasScript
  lastTokenWasStyle,  \* removeScriptTags: lastTokenWasStyle
  sanPc             \* where removeScriptTags is

sanVars == <<dom, z, response, firstToken, lastTokenWasScript, lastTokenWasStyle, sanPc>>

handlerVars == <<batchVars, streamVars, sanVars>>

\* What the actions of each part leave alone.
notConn == <<domVars, chromeVars, handlerVars>>
notDom == <<connVars, chromeVars, handlerVars>>
notChrome == <<connVars, domVars, handlerVars>>
notHandlers == <<connVars, domVars, sanVars>>
notSan == <<connVars, domVars, chromeVars, batchVars, streamVars>>

\* The tasks that call InvokeMethod / InvokeMethodAndGetReturn concurrently.
Callers == {1, 2}

\* Values of ResultType.
ResultValid == "result"
ResultError == "error"

\* A frame on the socket: a reply {"id", "result" | "error"}, an event, or the
\* close error that ends the read.  mid and to are filled in by the reader:
\* the frame's curMessageID and the caller whose sink the reply found.
NoFrame == [type |-> "none", id |-> 0, kind |-> "", ev |-> 0, mid |-> 0, to |-> 0]
ReplyFrame(i, k) == [type |-> "reply", id |-> i, kind |-> k, ev |-> 0, mid |-> 0, to |-> 0]
EventFrame(n) == [type |-> "event", id |-> 0, kind |-> "", ev |-> n, mid |-> 0, to |-> 0]
CloseFrame == [type |-> "close", id |-> 0, kind |-> "", ev |-> 0, mid |-> 0, to |-> 0]

\* An EventMessage: its MessageID and the event it carries.
EventMessage(mid, n) == [MessageID |-> mid, Method |-> n]
EOF == [MessageID |-> -1, Method |-> -1]

ConnInit ==
  /\ nextMethodID = 0
  /\ results = <<>>
  /\ messageReceived = 0
  /\ bufferedEvents = <<>>
  /\ bufClosed = FALSE
  /\ sockOpen = TRUE
  /\ cpc = [c \in Callers |-> "idle"]
  /\ cid = [c \in Callers |-> -1]
  /\ wpc = "run"
  /\ rpc = "read"
  /\ rpend = NoFrame
  /\ closePc = "open"
  /\ fatal = FALSE
  /\ wire = {}
  /\ replied = {}
  /\ inbox = <<>>
  /\ evSent = <<>>
  /\ allocated = <<>>
  /\ delivered = <<>>
  /\ dropped = {}
  /\ nextEvents = <<>>
  /\ bufAtClose = <<>>
  /\ postClose = <<>>

\* newMethodID: the ID returned and the counter afterwards.
newMethodIDNoIncrement(n) == [rv |-> n, next |-> n]

newMethodID(n) == [rv |-> n, next |-> n + 1]

\* InvokeMethod, up to the send on toSend: allocate the method ID.
InvokeMethodBegin(c) ==
  /\ ~fatal
  /\ cpc[c] = "idle"
  /\ nextMethodID < MaxCalls
  /\ LET m == newMethodID(nextMethodID) IN
       /\ nextMethodID' = m.next
       /\ cid' = [cid EXCEPT ![c] = m.rv]
       /\ allocated' = Append(allocated, [id |-> m.rv, wait |-> FALSE])
  /\ cpc' = [cpc EXCEPT ![c] = "fsend"]
  /\ UNCHANGED <<results, messageReceived, bufferedEvents, bufClosed, sockOpen,
                 wpc, rpc, rpend, closePc, fatal, wire, replied, inbox, evSent,
                 delivered, dropped, nextEvents, bufAtClose, postClose>>
  /\ UNCHANGED notConn

\* InvokeMethodAndGetReturn, line 407: allocate the method ID.
InvokeAndGetReturnBegin(c) ==
  /\ ~fatal
  /\ cpc[c] = "idle"
  /\ nextMethodID < MaxCalls
  /\ LET m == newMethodID(nextMethodID) IN
       /\ nextMethodID' = m.next
       /\ cid' = [cid EXCEPT ![c] = m.rv]
       /\ allocated' = Append(allocated, [id |-> m.rv, wait |-> TRUE])
  /\ cpc' = [cpc EXCEPT ![c] = "gotid"]
  /\ UNCHANGED <<results, messageReceived, bufferedEvents, bufClosed, sockOpen,
                 wpc, rpc, rpend, closePc, fatal, wire, replied, inbox, evSent,
                 delivered, dropped, nextEvents, bufAtClose, postClose>>
  /\ UNCHANGED notConn

\* InvokeMethodAndGetReturn going on to the send without registering its sink.
InvokeAndGetReturnNoRegister(c) ==
  /\ ~fatal
  /\ cpc[c] = "gotid"
  /\ cpc' = [cpc EXCEPT ![c] = "wsend"]
  /\ UNCHANGED <<nextMethodID, results, messageReceived, bufferedEvents, bufClosed, sockOpen,
                 cid, wpc, rpc, rpend, closePc, fatal, wire, replied, inbox, evSent,
                 allocated, delivered, dropped, nextEvents, bufAtClose, postClose>>
  /\ UNCHANGED notConn

\* InvokeMethodAndGetReturn, lines 415-418: register the sink under resultsMutex.
InvokeAndGetReturnRegister(c) ==
  /\ ~fatal
  /\ cpc[c] = "gotid"
  /\ results' = [i \in DOMAIN results \cup {cid[c]} |->
                   IF i = cid[c] THEN c ELSE results[i]]
  /\ cpc' = [cpc EXCEPT ![c] = "wsend"]
  /\ UNCHANGED <<nextMethodID, messageReceived, bufferedEvents, bufClosed, sockOpen,
                 cid, wpc, rpc, rpend, closePc, fatal, wire, replied, inbox, evSent,
                 allocated, delivered, dropped, nextEvents, bufAtClose, postClose>>
  /\ UNCHANGED notConn

\* sendMessages, case msg := <-c.toSend: the rendezvous with a caller blocked
\* on c.toSend <- msg, followed by the write to the socket.
WriterSend(c) ==
  /\ ~fatal
  /\ wpc = "run"
  /\ cpc[c] \in {"fsend", "wsend"}
  /\ wire' = wire \cup {cid[c]}
  /\ cpc' = [cpc EXCEPT ![c] = IF cpc[c] = "fsend" THEN "idle" ELSE "wait"]
  /\ cid' = [cid EXCEPT ![c] = IF cpc[c] = "fsend" THEN -1 ELSE cid[c]]
  /\ UNCHANGED <<nextMethodID, results, messageReceived, bufferedEvents, bufClosed,
                 sockOpen, wpc, rpc, rpend, closePc, fatal, replied, inbox,
                 evSent, allocated, delivered, dropped, nextEvents, bufAtClose,
                 postClose>>
  /\ UNCHANGED notConn

\* sendMessages, case <-c.stopSend: the rendezvous with Close (line 263).
CloseStopSend ==
  /\ ~fatal
  /\ closePc = "open"
  /\ wpc = "run"
  /\ closePc' = "stopping"
  /\ wpc' = "stopped"
  /\ UNCHANGED <<nextMethodID, results, messageReceived, bufferedEvents, bufClosed,
                 sockOpen, cpc, cid, rpc, rpend, fatal, wire, replied, inbox, evSent,
                 allocated, delivered, dropped, nextEvents, bufAtClose, postClose>>
  /\ UNCHANGED notConn

\* sendMessages leaves sendLoop: the deferred close(c.sendEnded).
WriterExit ==
  /\ ~fatal
  /\ wpc = "stopped"
  /\ wpc' = "ended"
  /\ UNCHANGED <<nextMethodID, results, messageReceived, bufferedEvents, bufClosed,
                 sockOpen, cpc, cid, rpc, rpend, closePc, fatal, wire, replied, inbox,
                 evSent, allocated, delivered, dropped, nextEvents, bufAtClose,
                 postClose>>
  /\ UNCHANGED notConn

\* Close sending the close control frame without the wait on sendEnded.
CloseWriteControlNoWait ==
  /\ ~fatal
  /\ closePc = "stopping"
  /\ closePc' = "closeSent"
  /\ UNCHANGED <<nextMethodID, results, messageReceived, bufferedEvents, bufClosed,
                 sockOpen, cpc, cid, wpc, rpc, rpend, fatal, wire, replied, inbox,
                 evSent, allocated, delivered, dropped, nextEvents, bufAtClose,
                 postClose>>
  /\ UNCHANGED notConn

\* Close, lines 266-270: <-c.sendEnded, then the close control frame.
CloseWriteControl ==
  /\ ~fatal
  /\ closePc = "stopping"
  /\ wpc = "ended"
  /\ closePc' = "closeSent"
  /\ UNCHANGED <<nextMethodID, results, messageReceived, bufferedEvents, bufClosed,
                 sockOpen, cpc, cid, wpc, rpc, rpend, fatal, wire, replied, inbox,
                 evSent, allocated, delivered, dropped, nextEvents, bufAtClose,
                 postClose>>
  /\ UNCHANGED notConn

\* Close, lines 273-277: <-c.recvEnded, then close the socket.
CloseFinish ==
  /\ ~fatal
  /\ closePc = "closeSent"
  /\ rpc = "ended"
  /\ closePc' = "closed"
  /\ sockOpen' = FALSE
  /\ bufAtClose' = bufferedEvents
  /\ UNCHANGED <<nextMethodID, results, messageReceived, bufferedEvents, bufClosed,
                 cpc, cid, wpc, rpc, rpend, fatal, wire, replied, inbox, evSent,
                 allocated, delivered, dropped, nextEvents, postClose>>
  /\ UNCHANGED notConn

\* The browser answers a method it has received, with a result or an error.
BrowserReply(i, k) ==
  /\ ~fatal
  /\ i \in wire \ replied
  /\ CloseFrame \notin Range(inbox)
  /\ rpc # "ended"
  /\ replied' = replied \cup {i}
  /\ inbox' = Append(inbox, ReplyFrame(i, k))
  /\ UNCHANGED <<nextMethodID, results, messageReceived, bufferedEvents, bufClosed,
                 sockOpen, cpc, cid, wpc, rpc, rpend, closePc, fatal, wire, evSent,
                 allocated, delivered, dropped, nextEvents, bufAtClose, postClose>>
  /\ UNCHANGED notConn

\* The browser sends an unsolicited event frame.
BrowserEvent ==
  /\ ~fatal
  /\ Len(evSent) < MaxEvents
  /\ CloseFrame \notin Range(inbox)
  /\ rpc # "ended"
  /\ evSent' = Append(evSent, Len(evSent) + 1)
  /\ inbox' = Append(inbox, EventFrame(Len(evSent) + 1))
  /\ UNCHANGED <<nextMethodID, results, messageReceived, bufferedEvents, bufClosed,
                 sockOpen, cpc, cid, wpc, rpc, rpend, closePc, fatal, wire, replied,
                 allocated, delivered, dropped, nextEvents, bufAtClose, postClose>>
  /\ UNCHANGED notConn

\* After the close control frame the browser drops the socket: ReadMessage
\* returns a close error with code 1006 once the frames before it are read.
BrowserClose ==
  /\ ~fatal
  /\ closePc = "closeSent"
  /\ CloseFrame \notin Range(inbox)
  /\ rpc # "ended"
  /\ inbox' = Append(inbox, CloseFrame)
  /\ UNCHANGED <<nextMethodID, results, messageReceived, bufferedEvents, bufClosed,
                 sockOpen, cpc, cid, wpc, rpc, rpend, closePc, fatal, wire, replied,
                 evSent, allocated, delivered, dropped, nextEvents, bufAtClose,
                 postClose>>
  /\ UNCHANGED notConn

\* receiveMessages, lines 316-322: the tag of a Result.
resultTypeOf(frame) ==
  IF frame.kind = ResultValid THEN ResultValid
  ELSE IF frame.kind = ResultError THEN ResultError
  ELSE ""

\* receiveMessages, lines 323-328.
Result(frame, mid) ==
  [ID |-> frame.id, MessageID |-> mid, Type |-> resultTypeOf(frame)]

\* A send on the buffered channel bufferedEvents (line 341): it blocks while
\* the channel is full.
sendBufferedDropWhenFull(buf, ev) ==
  [ok |-> TRUE, buf |-> IF Len(buf) < tempBufferSize THEN Append(buf, ev) ELSE buf]

sendBuffered(buf, ev) ==
  [ok |-> Len(buf) < tempBufferSize, buf |-> Append(buf, ev)]

\* A receive from bufferedEvents (line 376): buffered values are received
\* before the close is seen; it blocks on an open, empty channel.
recvBufferedEOFOnceClosed(buf, closed) ==
  IF closed THEN [ok |-> TRUE, val |-> EOF, buf |-> buf]
  ELSE IF buf # <<>> THEN [ok |-> TRUE, val |-> Head(buf), buf |-> Tail(buf)]
  ELSE [ok |-> FALSE, val |-> EOF, buf |-> buf]

recvBuffered(buf, closed) ==
  IF buf # <<>> THEN [ok |-> TRUE, val |-> Head(buf), buf |-> Tail(buf)]
  ELSE IF closed THEN [ok |-> TRUE, val |-> EOF, buf |-> buf]
  ELSE [ok |-> FALSE, val |-> EOF, buf |-> buf]

\* receiveMessages, lines 289-342: one ReadMessage and the processing of the
\* frame up to the channel send it may block on; on the expected close error
\* the loop ends and the deferred calls close recvEnded and bufferedEvents.
ReaderRead ==
  /\ ~fatal
  /\ rpc = "read"
  /\ inbox # <<>>
  /\ inbox' = Tail(inbox)
  /\ LET f == Head(inbox) IN
       \/ /\ f.type = "close"
          /\ rpc' = "ended"
          /\ bufClosed' = TRUE
          /\ UNCHANGED <<messageReceived, results, rpend, dropped>>
       \/ /\ f.type = "reply"
          /\ messageReceived' = messageReceived + 1
          /\ results' = [i \in DOMAIN results \ {f.id} |-> results[i]]
          /\ IF f.id \in DOMAIN results
               THEN /\ rpc' = "deliver"
                    /\ rpend' = [f EXCEPT !.mid = messageReceived, !.to = results[f.id]]
                    /\ UNCHANGED dropped
               ELSE /\ dropped' = dropped \cup {f.id}
                    /\ UNCHANGED <<rpc, rpend>>
          /\ UNCHANGED bufClosed
       \/ /\ f.type = "event"
          /\ messageReceived' = messageReceived + 1
          /\ rpc' = "enqueue"
          /\ rpend' = [f EXCEPT !.mid = messageReceived]
          /\ UNCHANGED <<bufClosed, results, dropped>>
  /\ UNCHANGED <<nextMethodID, bufferedEvents, sockOpen, cpc, cid, wpc, closePc,
                 fatal, wire, replied, evSent, allocated, delivered, nextEvents,
                 bufAtClose, postClose>>
  /\ UNCHANGED notConn

\* receiveMessages, line 329: resultChan <- result, the rendezvous with the
\* caller blocked on <-resultChan (line 421), which returns the Result.
ReaderDeliver ==
  /\ ~fatal
  /\ rpc = "deliver"
  /\ cpc[rpend.to] = "wait"
  /\ LET r == Result(rpend, rpend.mid) IN
       delivered' = Append(delivered, [call |-> cid[rpend.to], id |-> r.ID,
                                       tagged |-> r.Type \in {ResultValid, ResultError}])
  /\ cpc' = [cpc EXCEPT ![rpend.to] = "idle"]
  /\ cid' = [cid EXCEPT ![rpend.to] = -1]
  /\ rpc' = "read"
  /\ rpend' = NoFrame
  /\ UNCHANGED <<nextMethodID, results, messageReceived, bufferedEvents, bufClosed,
                 sockOpen, wpc, closePc, fatal, wire, replied, inbox, evSent,
                 allocated, dropped, nextEvents, bufAtClose, postClose>>
  /\ UNCHANGED notConn

\* The send on bufferedEvents as if the channel had no bound.
ReaderEnqueueUnbounded ==
  /\ ~fatal
  /\ rpc = "enqueue"
  /\ bufferedEvents' = Append(bufferedEvents, EventMessage(rpend.mid, rpend.ev))
  /\ rpc' = "read"
  /\ rpend' = NoFrame
  /\ UNCHANGED <<nextMethodID, results, messageReceived, bufClosed, sockOpen, cpc,
                 cid, wpc, closePc, fatal, wire, replied, inbox, evSent, allocated,
                 delivered, dropped, nextEvents, bufAtClose, postClose>>
  /\ UNCHANGED notConn

\* receiveMessages, line 341: c.bufferedEvents <- event.
ReaderEnqueue ==
  /\ ~fatal
  /\ rpc = "enqueue"
  /\ LET s == sendBuffered(bufferedEvents, EventMessage(rpend.mid, rpend.ev)) IN
       /\ s.ok
       /\ bufferedEvents' = s.buf
  /\ rpc' = "read"
  /\ rpend' = NoFrame
  /\ UNCHANGED <<nextMethodID, results, messageReceived, bufClosed, sockOpen, cpc,
                 cid, wpc, closePc, fatal, wire, replied, inbox, evSent, allocated,
                 delivered, dropped, nextEvents, bufAtClose, postClose>>
  /\ UNCHANGED notConn

\* receiveMessages, lines 293-295 and sendMessages, lines 367-369: any other
\* socket error ends the process through log.Fatal; nothing of the
\* Connection or of its callers survives.
SocketFatal ==
  /\ ~fatal
  /\ \/ rpc = "read"
     \/ wpc = "run" /\ \E c \in Callers : cpc[c] \in {"fsend", "wsend"}
  /\ sockOpen
  /\ fatal' = TRUE
  /\ nextMethodID' = 0
  /\ results' = <<>>
  /\ messageReceived' = 0
  /\ bufferedEvents' = <<>>
  /\ bufClosed' = FALSE
  /\ sockOpen' = FALSE
  /\ cpc' = [c \in Callers |-> "exited"]
  /\ cid' = [c \in Callers |-> -1]
  /\ wpc' = "exited"
  /\ rpc' = "exited"
  /\ rpend' = NoFrame
  /\ closePc' = "exited"
  /\ wire' = {}
  /\ replied' = {}
  /\ inbox' = <<>>
  /\ evSent' = <<>>
  /\ allocated' = <<>>
  /\ delivered' = <<>>
  /\ dropped' = {}
  /\ nextEvents' = <<>>
  /\ bufAtClose' = <<>>
  /\ postClose' = <<>>
  /\ UNCHANGED notConn

\* Connection.NextEvent (lines 375-381), called by the event consumer.
NextEvent ==
  /\ ~fatal
  /\ closePc = "closed" => Len(postClose) < MaxPostClose
  /\ LET r == recvBuffered(bufferedEvents, bufClosed) IN
       /\ r.ok
       /\ bufferedEvents' = r.buf
       /\ nextEvents' = IF r.val = EOF THEN nextEvents ELSE Append(nextEvents, r.val.Method)
       /\ postClose' = IF closePc = "closed" THEN Append(postClose, r.val) ELSE postClose
  /\ UNCHANGED <<nextMethodID, results, messageReceived, bufClosed, sockOpen, cpc,
                 cid, wpc, rpc, rpend, closePc, fatal, wire, replied, inbox, evSent,
                 allocated, delivered, dropped, bufAtClose>>
  /\ UNCHANGED notConn

NextConn ==
  \/ \E c \in Callers : InvokeMethodBegin(c)
  \/ \E c \in Callers : InvokeAndGetReturnBegin(c)
  \/ \E c \in Callers : InvokeAndGetReturnRegister(c)
  \/ \E c \in Callers : WriterSend(c)
  \/ CloseStopSend
  \/ WriterExit
  \/ CloseWriteControl
  \/ CloseFinish
  \/ \E i \in 0..MaxCalls, k \in {ResultValid, ResultError} : BrowserReply(i, k)
  \/ BrowserEvent
  \/ BrowserClose
  \/ ReaderRead
  \/ ReaderDeliver
  \/ ReaderEnqueue
  \/ SocketFatal
  \/ NextEvent


(***************************************************************************)
(* dom.DOM (src/unnamed/part_006)                                          *)
(***************************************************************************)
\* Number of calls made on one DOM model.
MaxDomOps == 2

\* domjson.Action.
Invalid == 0
Insert == 1
Remove == 2
Modify == 3

EmptyMap == [x \in {} |-> ""]

\* m[k] = v, delete(m, k) and m[k] of a Go map; a missing key reads as "".
MapPut(mp, k, v) == [x \in DOMAIN mp \cup {k} |-> IF x = k THEN v ELSE mp[x]]
MapDelete(mp, k) == [x \in DOMAIN mp \ {k} |-> mp[x]]
MapGet(mp, k) == IF k \in DOMAIN mp THEN mp[k] ELSE ""

\* strings.ToLower on the node names of the model.
ToLower(str) ==
  CASE str = "SCRIPT" -> "script"
    [] str = "DIV" -> "div"
    [] str = "#TEXT" -> "#text"
    [] OTHER -> str

\* getNodeIDStr: 0 is the null node and reads as the empty string; a field
\* that is missing or not a number (modelled as a negative value) is an error.
getNodeIDStr(idFloat) ==
  IF idFloat < 0 THEN [err |-> TRUE, id |-> ""]
  ELSE IF idFloat = 0 THEN [err |-> FALSE, id |-> ""]
  ELSE [err |-> FALSE, id |-> ToString(idFloat)]

\* getAttributes: the flat key, value list as a map; a later pair wins.
RECURSIVE getAttributesFrom(_, _)
getAttributesFrom(pairs, i) ==
  IF i + 1 > Len(pairs) THEN EmptyMap
  ELSE LET rest == getAttributesFrom(pairs, i + 2) IN
         IF pairs[i] \in DOMAIN rest THEN rest ELSE MapPut(rest, pairs[i], pairs[i + 1])

getAttributes(node) == getAttributesFrom(node.attributes, 1)

\* The DOM model as a value: the three maps of the struct.
DomState == [nim |-> nodeIDMapping, bids |-> backendNodeIDs, ntm |-> nodeTypeMapping]

\* createNodeInsertUpdate with the parent and the previous sibling swapped.
createNodeInsertUpdateSwapped(d, nodeID, parentNodeID, prevNodeID, node) ==
  LET elementType == node.nodeName
      attributes == IF ToLower(elementType) # "script" THEN getAttributes(node) ELSE EmptyMap
  IN [upd |-> [Action |-> Insert,
               Node |-> [NodeID |-> nodeID, ParentNodeID |-> prevNodeID,
                         PreviousNodeID |-> parentNodeID, Attributes |-> attributes,
                         ElementType |-> elementType, Text |-> node.nodeValue]],
      d |-> [d EXCEPT !.ntm = MapPut(d.ntm, nodeID, elementType)]]

\* createNodeInsertUpdate: the update and the model with the node type recorded.
createNodeInsertUpdate(d, nodeID, parentNodeID, prevNodeID, node) ==
  LET elementType == node.nodeName
      attributes == IF ToLower(elementType) # "script" THEN getAttributes(node) ELSE EmptyMap
  IN [upd |-> [Action |-> Insert,
               Node |-> [NodeID |-> nodeID, ParentNodeID |-> parentNodeID,
                         PreviousNodeID |-> prevNodeID, Attributes |-> attributes,
                         ElementType |-> elementType, Text |-> node.nodeValue]],
      d |-> [d EXCEPT !.ntm = MapPut(d.ntm, nodeID, elementType)]]

\* createNodeRemovalUpdate.
createNodeRemovalUpdate(nodeID, parentNodeID) ==
  [Action |-> Remove,
   Node |-> [NodeID |-> nodeID, ParentNodeID |-> parentNodeID, PreviousNodeID |-> "",
             Attributes |-> EmptyMap, ElementType |-> "", Text |-> ""]]

\* createNodeAttributeUpdate.
createNodeAttributeUpdate(nodeID, attrName, attrValue) ==
  [Action |-> Modify,
   Node |-> [NodeID |-> nodeID, ParentNodeID |-> "", PreviousNodeID |-> "",
             Attributes |-> MapPut(EmptyMap, attrName, attrValue),
             ElementType |-> "", Text |-> ""]]

\* generateInitialDOMHelper, lines 353-360: whether the node is new and
\* whether an insert is made for it.
isNewNode(d, backendNodeID) == backendNodeID \notin d.bids

emitsInsert(d, parentNodeID) == ToLower(MapGet(d.ntm, parentNodeID)) # "script"

\* generateInitialDOMHelper, and its loop over the children of a node.  The
\* value is the model afterwards, the updates appended to result, the
\* processed backend node ID and the error.
RECURSIVE generateInitialDOMHelper(_, _, _, _, _)
RECURSIVE generateChildren(_, _, _, _, _)
generateInitialDOMHelper(d, result, curNode, parentNodeID, prevNodeID) ==
  LET b == getNodeIDStr(curNode.backendNodeId)
      n == getNodeIDStr(curNode.nodeId)
  IN IF b.err \/ n.err THEN [d |-> d, result |-> result, id |-> "", err |-> TRUE]
     ELSE
       LET d1 == IF isNewNode(d, b.id) THEN [d EXCEPT !.bids = d.bids \cup {b.id}] ELSE d
           ins == createNodeInsertUpdate(d1, b.id, parentNodeID, prevNodeID, curNode)
           emit == isNewNode(d, b.id) /\ emitsInsert(d1, parentNodeID)
           d2 == IF emit THEN ins.d ELSE d1
           r2 == IF emit THEN Append(result, ins.upd) ELSE result
           c == generateChildren(d2, r2, curNode.children, b.id, "")
       IN IF c.err THEN [d |-> c.d, result |-> c.result, id |-> "", err |-> TRUE]
          ELSE [d |-> [c.d EXCEPT !.nim = MapPut(c.d.nim, n.id, b.id)],
                result |-> c.result, id |-> b.id, err |-> FALSE]

generateChildren(d, result, children, parentNodeID, prevNodeID) ==
  IF children = <<>> THEN [d |-> d, result |-> result, id |-> prevNodeID, err |-> FALSE]
  ELSE LET r == generateInitialDOMHelper(d, result, Head(children), parentNodeID, prevNodeID)
       IN IF r.err THEN r
          ELSE generateChildren(r.d, r.result, Tail(children), parentNodeID, r.id)

\* ProcessSetChildNodes, lines 323-329: the loop over the nodes of the
\* payload; the helper's error is not looked at.
RECURSIVE setChildNodesLoop(_, _, _, _, _)
setChildNodesLoop(d, result, nodes, parentBackendID, prevNodeID) ==
  IF nodes = <<>> THEN [d |-> d, result |-> result]
  ELSE LET r == generateInitialDOMHelper(d, <<>>, Head(nodes), parentBackendID, prevNodeID)
       IN setChildNodesLoop(r.d, result \o r.result, Tail(nodes), parentBackendID,
                            getNodeIDStr(Head(nodes).backendNodeId).id)

\* getBackendNodeID.
getBackendNodeID(d, nodeID) ==
  IF nodeID \in DOMAIN d.nim THEN [err |-> FALSE, id |-> d.nim[nodeID]]
  ELSE [err |-> TRUE, id |-> ""]

\* The nodes the browser reports: protocol node IDs, each with its backend
\* node ID, and the node names and attribute lists they come with.
DomNodes == {1, 2, 3}
BackendOf(p) == CASE p = 1 -> 2 [] p = 2 -> 1 [] OTHER -> p
AttrLists == {<<>>, <<"onclick", "f()", "ONLOAD", "g()", "id", "x">>}

MkNode(p, name, attrs, children) ==
  [nodeId |-> p, backendNodeId |-> BackendOf(p), nodeName |-> name, nodeValue |-> name,
   attributes |-> attrs, children |-> children]

\* The name of node p when node sc is the script element (none when sc = 0).
NameOf(p, sc) == IF p = sc THEN "SCRIPT" ELSE "DIV"

\* A tree in which a node has both a child and a later sibling: root 3 with
\* the children 1, which has the child 4, and 2.
BranchingTree ==
  MkNode(3, "DIV", <<>>,
         <<MkNode(1, "DIV", <<>>, <<MkNode(4, "DIV", <<>>, <<>>)>>),
           MkNode(2, "DIV", <<>>, <<>>)>>)

\* Trees for DOM.getDocument: a root alone, with one child, with a child and a
\* grandchild, and with two children, where at most one node is a script
\* element; and the branching tree.
Trees ==
  {BranchingTree} \cup UNION {
    {MkNode(3, NameOf(3, sc), a, <<>>),
     MkNode(3, NameOf(3, sc), a, <<MkNode(1, NameOf(1, sc), a, <<>>)>>),
     MkNode(3, NameOf(3, sc), a,
            <<MkNode(1, NameOf(1, sc), a, <<MkNode(2, NameOf(2, sc), a, <<>>)>>)>>),
     MkNode(3, NameOf(3, sc), a,
            <<MkNode(1, NameOf(1, sc), a, <<>>), MkNode(2, NameOf(2, sc), a, <<>>)>>)}
    : sc \in DomNodes \cup {0}, a \in AttrLists }

\* Payloads of DOM.setChildNodes for a parent: one child, two children, or a
\* child with a child of its own.
AllSetChildNodesPayloads ==
  UNION {
    {[parentId |-> q, nodes |-> <<MkNode(x, NameOf(x, sc), a, <<>>)>>],
     [parentId |-> q, nodes |-> <<MkNode(x, NameOf(x, sc), <<>>, <<>>),
                                  MkNode(y, NameOf(y, sc), <<>>, <<>>)>>],
     [parentId |-> q, nodes |-> <<MkNode(x, NameOf(x, sc), <<>>,
                                         <<MkNode(y, NameOf(y, sc), <<>>, <<>>)>>)>>]}
    : q \in DomNodes, x \in DomNodes, y \in DomNodes, sc \in DomNodes \cup {0},
      a \in AttrLists }

WellFormedSetChildNodes(pl) ==
  \A i \in 1..Len(pl.nodes) :
    /\ pl.nodes[i].nodeId # pl.parentId
    /\ \A j \in 1..Len(pl.nodes) : i < j => pl.nodes[i].nodeId < pl.nodes[j].nodeId
    /\ \A j \in 1..Len(pl.nodes[i].children) :
         /\ pl.nodes[i].children[j].nodeId # pl.parentId
         /\ pl.nodes[i].children[j].nodeId > pl.nodes[i].nodeId

SetChildNodesPayloads == {pl \in AllSetChildNodesPayloads : WellFormedSetChildNodes(pl)}

\* Payloads of DOM.childNodeInserted, DOM.childNodeRemoved and
\* DOM.attributeModified.
AllInsertionPayloads ==
  {[parentNodeId |-> q, previousNodeId |-> v, node |-> MkNode(x, NameOf(x, sc), a, <<>>)]
    : q \in DomNodes \cup {0}, v \in DomNodes \cup {0}, x \in DomNodes,
      sc \in DomNodes \cup {0}, a \in AttrLists}

WellFormedInsertion(pl) ==
  /\ pl.node.nodeId \notin {pl.parentNodeId, pl.previousNodeId}
  /\ pl.previousNodeId # 0 => pl.previousNodeId # pl.parentNodeId
  /\ pl.node.nodeName = "SCRIPT" => pl.node.attributes = <<>>

InsertionPayloads == {pl \in AllInsertionPayloads : WellFormedInsertion(pl)}

RemovalPayloads ==
  {[parentNodeId |-> q, nodeId |-> x] : q \in DomNodes \cup {0}, x \in DomNodes}

AttributePayloads ==
  {[nodeId |-> x, name |-> nm, value |-> "v"] : x \in DomNodes, nm \in {"onclick", "id"}}

\* What the accepted calls have said about the document: parent and name of
\* each backend node ID.
RECURSIVE docFromTree(_, _, _)
RECURSIVE docFromTrees(_, _, _)
docFromTree(doc, node, parentB) ==
  LET b == ToString(node.backendNodeId)
      doc1 == [parent |-> MapPut(doc.parent, b, parentB),
               kind |-> MapPut(doc.kind, b, node.nodeName)]
  IN docFromTrees(doc1, node.children, b)

docFromTrees(doc, nodes, parentB) ==
  IF nodes = <<>> THEN doc
  ELSE docFromTrees(docFromTree(doc, Head(nodes), parentB), Tail(nodes), parentB)

BackendStr(p) == IF p = 0 THEN "" ELSE ToString(BackendOf(p))

\* Some ancestor of backend node b is a script element.
RECURSIVE ScriptAbove(_, _, _)
ScriptAbove(doc, b, fuel) ==
  LET q == MapGet(doc.parent, b) IN
    IF fuel = 0 \/ q = "" THEN FALSE
    ELSE ToLower(MapGet(doc.kind, q)) = "script" \/ ScriptAbove(doc, q, fuel - 1)

UnderScriptFlags(doc, upds) ==
  [k \in 1..Len(upds) |-> ScriptAbove(doc, upds[k].Node.NodeID, Cardinality(DomNodes))]

DomInit ==
  /\ nodeIDMapping = EmptyMap
  /\ backendNodeIDs = {}
  /\ nodeTypeMapping = EmptyMap
  /\ emitted = <<>>
  /\ underScript = <<>>
  /\ docParent = EmptyMap
  /\ docKind = EmptyMap
  /\ domOps = 0
  /\ domErr = ""

\* The model after a call returned upds, with doc what the calls have said.
DomReturn(d, upds, doc, docAfter) ==
  /\ nodeIDMapping' = d.nim
  /\ backendNodeIDs' = d.bids
  /\ nodeTypeMapping' = d.ntm
  /\ emitted' = emitted \o upds
  /\ underScript' = underScript \o UnderScriptFlags(doc, upds)
  /\ docParent' = docAfter.parent
  /\ docKind' = docAfter.kind
  /\ domOps' = domOps + 1
  /\ domErr' = ""
  /\ UNCHANGED notDom

Doc == [parent |-> docParent, kind |-> docKind]

\* DOM.GenerateInitialDOM.
GenerateInitialDOM(rootNode) ==
  /\ domOps < MaxDomOps
  /\ LET r == generateInitialDOMHelper(DomState, <<>>, rootNode, "", "")
         doc == docFromTree(Doc, rootNode, "")
     IN DomReturn(r.d, IF r.err THEN <<>> ELSE r.result, doc, doc)

\* DOM.ProcessSetChildNodes.
ProcessSetChildNodes(node) ==
  /\ domOps < MaxDomOps
  /\ LET parentNodeID == getNodeIDStr(node.parentId)
         parentBackendID == getBackendNodeID(DomState, parentNodeID.id)
     IN /\ ~parentNodeID.err
        /\ ~parentBackendID.err
        /\ LET r == setChildNodesLoop(DomState, <<>>, node.nodes, parentBackendID.id, "")
               doc == docFromTrees(Doc, node.nodes, BackendStr(node.parentId))
           IN DomReturn(r.d, r.result, doc, doc)

\* The model after a call returned the error err and no update: d is what
\* the call left in the three maps.
DomFail(d, err) ==
  /\ nodeIDMapping' = d.nim
  /\ backendNodeIDs' = d.bids
  /\ nodeTypeMapping' = d.ntm
  /\ domErr' = err
  /\ domOps' = domOps + 1
  /\ UNCHANGED <<emitted, underScript, docParent, docKind>>
  /\ UNCHANGED notDom

\* The body of ProcessNodeInsertion with the write of nodeIDMapping moved
\* before the look-up of the parent and of the previous sibling.
processNodeInsertionWritesFirst(d, node) ==
  LET nodeDetails == node.node
      parentNodeID == getNodeIDStr(node.parentNodeId)
      prevNodeID == getNodeIDStr(node.previousNodeId)
      nodeID == getNodeIDStr(nodeDetails.nodeId)
      backendNodeID == getNodeIDStr(nodeDetails.backendNodeId)
      d1 == [d EXCEPT !.nim = MapPut(d.nim, nodeID.id, backendNodeID.id)]
  IN IF parentNodeID.err THEN [err |-> "missing field", upds |-> <<>>, d |-> d1]
     ELSE IF parentNodeID.id # "" /\ parentNodeID.id \notin DOMAIN d.nim
       THEN [err |-> "parent node does not exists", upds |-> <<>>, d |-> d1]
     ELSE IF prevNodeID.err THEN [err |-> "missing field", upds |-> <<>>, d |-> d1]
     ELSE IF prevNodeID.id # "" /\ prevNodeID.id \notin DOMAIN d.nim
       THEN [err |-> "the provided previous node does not exists", upds |-> <<>>, d |-> d1]
     ELSE IF nodeID.err \/ backendNodeID.err
       THEN [err |-> "missing field", upds |-> <<>>, d |-> d1]
     ELSE LET parentB == IF parentNodeID.id # "" THEN d.nim[parentNodeID.id] ELSE ""
              prevB == IF prevNodeID.id # "" THEN d.nim[prevNodeID.id] ELSE ""
              ins == createNodeInsertUpdate(d1, backendNodeID.id, parentB, prevB, nodeDetails)
          IN [err |-> "", upds |-> <<ins.upd>>, d |-> ins.d]

\* The body of ProcessNodeInsertion, lines 226-266, in the order of the
\* code: the error it returns ("" for nil), the update and the model after.
processNodeInsertion(d, node) ==
  LET nodeDetails == node.node
      parentNodeID == getNodeIDStr(node.parentNodeId)
      prevNodeID == getNodeIDStr(node.previousNodeId)
      nodeID == getNodeIDStr(nodeDetails.nodeId)
      backendNodeID == getNodeIDStr(nodeDetails.backendNodeId)
  IN IF parentNodeID.err THEN [err |-> "missing field", upds |-> <<>>, d |-> d]
     ELSE IF parentNodeID.id # "" /\ parentNodeID.id \notin DOMAIN d.nim
       THEN [err |-> "parent node does not exists", upds |-> <<>>, d |-> d]
     ELSE IF prevNodeID.err THEN [err |-> "missing field", upds |-> <<>>, d |-> d]
     ELSE IF prevNodeID.id # "" /\ prevNodeID.id \notin DOMAIN d.nim
       THEN [err |-> "the provided previous node does not exists", upds |-> <<>>, d |-> d]
     ELSE IF nodeID.err \/ backendNodeID.err
       THEN [err |-> "missing field", upds |-> <<>>, d |-> d]
     ELSE LET parentB == IF parentNodeID.id # "" THEN d.nim[parentNodeID.id] ELSE ""
              prevB == IF prevNodeID.id # "" THEN d.nim[prevNodeID.id] ELSE ""
              ins == createNodeInsertUpdate(d, backendNodeID.id, parentB, prevB, nodeDetails)
          IN [err |-> "", upds |-> <<ins.upd>>,
              d |-> [ins.d EXCEPT !.nim = MapPut(ins.d.nim, nodeID.id, backendNodeID.id)]]

\* DOM.ProcessNodeInsertion: a call that fails is a step too.
ProcessNodeInsertion(node) ==
  /\ domOps < MaxDomOps
  /\ LET r == processNodeInsertion(DomState, node)
         doc == docFromTree(Doc, node.node, BackendStr(node.parentNodeId))
     IN IF r.err # ""
          THEN DomFail(r.d, r.err)
          ELSE DomReturn(r.d, r.upds, doc, doc)

\* DOM.ProcessNodeRemoval.
ProcessNodeRemoval(node) ==
  /\ domOps < MaxDomOps
  /\ LET parentNodeID == getNodeIDStr(node.parentNodeId)
         parentBackendID == getBackendNodeID(DomState, parentNodeID.id)
         nodeID == getNodeIDStr(node.nodeId)
         backendNodeID == getBackendNodeID(DomState, nodeID.id)
     IN /\ ~parentNodeID.err
        /\ ~parentBackendID.err
        /\ ~nodeID.err
        /\ ~backendNodeID.err
        /\ DomReturn([nim |-> MapDelete(nodeIDMapping, nodeID.id),
                      bids |-> backendNodeIDs \ {nodeID.id},
                      ntm |-> MapDelete(nodeTypeMapping, nodeID.id)],
                     <<createNodeRemovalUpdate(backendNodeID.id, parentBackendID.id)>>,
                     Doc,
                     [parent |-> MapDelete(docParent, BackendStr(node.nodeId)),
                      kind |-> MapDelete(docKind, BackendStr(node.nodeId))])

\* DOM.ProcessNodeAttributeModification.
ProcessNodeAttributeModification(node) ==
  /\ domOps < MaxDomOps
  /\ LET nodeID == getNodeIDStr(node.nodeId)
         backendNodeID == getBackendNodeID(DomState, nodeID.id)
     IN /\ ~nodeID.err
        /\ ~backendNodeID.err
        /\ DomReturn(DomState,
                     <<createNodeAttributeUpdate(backendNodeID.id, node.name, node.value)>>,
                     Doc, Doc)

NextDOM ==
  \/ \E t \in Trees : GenerateInitialDOM(t)
  \/ \E pl \in SetChildNodesPayloads : ProcessSetChildNodes(pl)
  \/ \E pl \in InsertionPayloads : ProcessNodeInsertion(pl)
  \/ \E pl \in RemovalPayloads : ProcessNodeRemoval(pl)
  \/ \E pl \in AttributePayloads : ProcessNodeAttributeModification(pl)

(***************************************************************************)
(* chrome.Instance (src/unnamed/part_008) and chrome.InstanceManager       *)
(* (src/unnamed/part_007)                                                  *)
(***************************************************************************)
\* Number of instance IDs the manager hands out.
MaxInstances == 2

\* Capacity of instanceQueue (15 in the source, scaled).
numBufferedInstance == 1

\* Instance.Connect: the number of dial attempts.
tryLimit == 5

InstanceIDs == 0..(MaxInstances - 1)

\* The goroutines that call ResetTimeout on an instance: the handlers and
\* NextEvent.
Resetters == {1, 2}

ChromeInit ==
  /\ nextInstanceID = 0
  /\ instanceQueue = <<>>
  /\ instances = {}
  /\ urls = {}
  /\ apc = "start"
  /\ aid = 0
  /\ tryCounter = 0
  /\ Command = [i \in InstanceIDs |-> "none"]
  /\ userDir = [i \in InstanceIDs |-> FALSE]
  /\ devtoolsConn = [i \in InstanceIDs |-> "nil"]
  /\ ready = [i \in InstanceIDs |-> FALSE]
  /\ pageLoadCompletes = [i \in InstanceIDs |-> "nil"]
  /\ timeoutTimer = [i \in InstanceIDs |-> "nil"]
  /\ rsPc = [c \in Resetters |-> "idle"]
  /\ rsInst = [c \in Resetters |-> 0]
  /\ beforeTimedout = [c \in Resetters |-> FALSE]
  /\ resetReturns = {}
  /\ waitPassed = [i \in InstanceIDs |-> FALSE]
  /\ dialAttempts = 0
  /\ connectFailed = [i \in InstanceIDs |-> FALSE]
  /\ connectResult = [i \in InstanceIDs |-> "none"]
  /\ killSent = [i \in InstanceIDs |-> FALSE]
  /\ datReturned = [i \in InstanceIDs |-> FALSE]

instVars == <<Command, userDir, devtoolsConn, ready, pageLoadCompletes>>
mgrVars == <<nextInstanceID, instanceQueue, instances, urls>>
addVars == <<apc, aid, tryCounter>>
resetVars == <<rsPc, rsInst, beforeTimedout, resetReturns>>
connectHist == <<waitPassed, dialAttempts, connectFailed, connectResult>>

\* Instance.killInstance on instance i, given whether Process.Kill succeeds:
\* the process and the user directory afterwards.  Whether Process.Wait
\* succeeds only changes the error that is returned.
killInstance(i, killOk) ==
  [Command |-> IF killOk THEN "killed" ELSE Command[i],
   userDir |-> IF killOk THEN FALSE ELSE userDir[i]]

\* addInstance that takes the instance ID without the increment.
AddInstanceStartNoIncrement ==
  /\ apc = "start"
  /\ nextInstanceID < MaxInstances
  /\ aid' = nextInstanceID
  /\ apc' = "port"
  /\ UNCHANGED <<mgrVars, tryCounter, instVars, timeoutTimer, resetVars, connectHist,
                 killSent, datReturned>>
  /\ UNCHANGED notChrome

\* InstanceManager.addInstance, lines 379-382: take the next instance ID.
AddInstanceStart ==
  /\ apc = "start"
  /\ nextInstanceID < MaxInstances
  /\ aid' = nextInstanceID
  /\ nextInstanceID' = nextInstanceID + 1
  /\ apc' = "port"
  /\ UNCHANGED <<instanceQueue, instances, urls, tryCounter, instVars, timeoutTimer,
                 resetVars, connectHist, killSent, datReturned>>
  /\ UNCHANGED notChrome

\* addInstance, lines 385-389: freeport.GetFreePort, which may fail.
AddInstanceGetPort ==
  /\ apc = "port"
  /\ \E ok \in BOOLEAN : apc' = IF ok THEN "new" ELSE "start"
  /\ UNCHANGED <<mgrVars, aid, tryCounter, instVars, timeoutTimer, resetVars, connectHist,
                 killSent, datReturned>>
  /\ UNCHANGED notChrome

\* addInstance, lines 392-400, with chrome.New: the user directory is made,
\* the process is started and the instance is put in the map; New fails when
\* the directory cannot be made or the process cannot be started.
AddInstanceNew ==
  /\ apc = "new"
  /\ \E outcome \in {"tempdir", "start", "ok"} :
       /\ userDir' = [userDir EXCEPT ![aid] = (outcome # "tempdir")]
       /\ Command' = [Command EXCEPT ![aid] = IF outcome = "ok" THEN "running" ELSE "none"]
       /\ instances' = IF outcome = "ok" THEN instances \cup {aid} ELSE instances
       /\ apc' = IF outcome = "ok" THEN "wait" ELSE "start"
  /\ UNCHANGED <<nextInstanceID, instanceQueue, urls, aid, tryCounter, devtoolsConn, ready,
                 pageLoadCompletes, timeoutTimer, resetVars, connectHist, killSent,
                 datReturned>>
  /\ UNCHANGED notChrome

\* addInstance, lines 401-406, with Instance.Wait under the 5 second
\* deadline.
AddInstanceWait ==
  /\ apc = "wait"
  /\ \E ok \in BOOLEAN :
       /\ waitPassed' = [waitPassed EXCEPT ![aid] = ok]
       /\ apc' = IF ok THEN "connect" ELSE "start"
  /\ UNCHANGED <<mgrVars, aid, tryCounter, instVars, timeoutTimer, resetVars, dialAttempts,
                 connectFailed, connectResult, killSent, datReturned>>
  /\ UNCHANGED notChrome

\* Instance.Connect, lines 149-157 and 163-166: one dial.  When it succeeds
\* the loop is left, the gates are set up and Connect returns nil, on which
\* addInstance goes on to the queue.
ConnectDial ==
  /\ apc = "connect"
  /\ tryCounter < tryLimit
  /\ dialAttempts' = dialAttempts + 1
  /\ \E ok \in BOOLEAN :
       IF ok
       THEN /\ devtoolsConn' = [devtoolsConn EXCEPT ![aid] = "open"]
            /\ pageLoadCompletes' = [pageLoadCompletes EXCEPT ![aid] = "open"]
            /\ ready' = [ready EXCEPT ![aid] = TRUE]
            /\ connectResult' = [connectResult EXCEPT ![aid] = "nil"]
            /\ apc' = "enqueue"
            /\ UNCHANGED tryCounter
       ELSE /\ tryCounter' = tryCounter + 1
            /\ UNCHANGED <<devtoolsConn, pageLoadCompletes, ready, connectResult, apc>>
  /\ UNCHANGED <<mgrVars, aid, Command, userDir, timeoutTimer, resetVars, waitPassed,
                 connectFailed, killSent, datReturned>>
  /\ UNCHANGED notChrome

\* The value of err at line 161 of Instance.Connect: the err of line 148,
\* which the loop never assigns because line 151 declares its own.
connectErr == "nil"

\* Instance.Connect, lines 158-162: the dials are used up; the instance is
\* killed and err is returned.  addInstance, lines 407-412, looks at it.
ConnectGiveUp ==
  /\ apc = "connect"
  /\ tryCounter >= tryLimit
  /\ \E killOk \in BOOLEAN :
       LET k == killInstance(aid, killOk) IN
         /\ Command' = [Command EXCEPT ![aid] = k.Command]
         /\ userDir' = [userDir EXCEPT ![aid] = k.userDir]
  /\ killSent' = [killSent EXCEPT ![aid] = TRUE]
  /\ connectFailed' = [connectFailed EXCEPT ![aid] = TRUE]
  /\ connectResult' = [connectResult EXCEPT ![aid] = connectErr]
  /\ apc' = IF connectErr # "nil" THEN "start" ELSE "enqueue"
  /\ UNCHANGED <<mgrVars, aid, tryCounter, devtoolsConn, ready, pageLoadCompletes,
                 timeoutTimer, resetVars, waitPassed, dialAttempts, datReturned>>
  /\ UNCHANGED notChrome

\* The send on a queue without a capacity.
AddInstanceEnqueueUnbounded ==
  /\ apc = "enqueue"
  /\ instanceQueue' = Append(instanceQueue, aid)
  /\ apc' = "start"
  /\ tryCounter' = 0
  /\ dialAttempts' = 0
  /\ UNCHANGED <<nextInstanceID, instances, urls, aid, instVars, timeoutTimer, resetVars,
                 waitPassed, connectFailed, connectResult, killSent, datReturned>>
  /\ UNCHANGED notChrome

\* addInstance, line 412: the send on instanceQueue, which waits while the
\* queue is full.
AddInstanceEnqueue ==
  /\ apc = "enqueue"
  /\ Len(instanceQueue) < numBufferedInstance
  /\ instanceQueue' = Append(instanceQueue, aid)
  /\ apc' = "start"
  /\ tryCounter' = 0
  /\ dialAttempts' = 0
  /\ UNCHANGED <<nextInstanceID, instances, urls, aid, instVars, timeoutTimer, resetVars,
                 waitPassed, connectFailed, connectResult, killSent, datReturned>>
  /\ UNCHANGED notChrome

\* InstanceManager.GetNewInstance with Instance.InitializeTimeout.
GetNewInstance ==
  /\ instanceQueue # <<>>
  /\ LET nextID == Head(instanceQueue) IN
       /\ nextID \in instances
       /\ timeoutTimer[nextID] = "nil"
       /\ instanceQueue' = Tail(instanceQueue)
       /\ urls' = urls \cup {nextID}
       /\ timeoutTimer' = [timeoutTimer EXCEPT ![nextID] = "armed"]
  /\ UNCHANGED <<nextInstanceID, instances, addVars, instVars, resetVars, connectHist,
                 killSent, datReturned>>
  /\ UNCHANGED notChrome

\* RemoveInstance that forgets the URL map.
RemoveInstanceKeepsURL(i) ==
  /\ i \in instances => timeoutTimer[i] # "nil"
  /\ instances' = instances \ {i}
  /\ UNCHANGED <<nextInstanceID, instanceQueue, urls, addVars, instVars, timeoutTimer,
                 resetVars, connectHist, killSent, datReturned>>
  /\ UNCHANGED notChrome

\* InstanceManager.RemoveInstance, called by a handler with the ID of its
\* instance, or with an ID that is not in the map, for which it returns an
\* error.
RemoveInstance(i) ==
  /\ i \in instances => timeoutTimer[i] # "nil"
  /\ IF i \notin instances
     THEN UNCHANGED <<instances, urls>>
     ELSE /\ instances' = instances \ {i}
          /\ urls' = urls \ {i}
  /\ UNCHANGED <<nextInstanceID, instanceQueue, addVars, instVars, timeoutTimer, resetVars,
                 connectHist, killSent, datReturned>>
  /\ UNCHANGED notChrome

\* ResetTimeout whose first step reads the timer but leaves it running.
ResetTimeoutStopLeavesTimer(c, i) ==
  /\ rsPc[c] = "idle"
  /\ i \in instances
  /\ timeoutTimer[i] # "nil"
  /\ \A d \in Resetters : rsPc[d] # "idle" => rsInst[d] = i
  /\ beforeTimedout' = [beforeTimedout EXCEPT ![c] = (timeoutTimer[i] = "armed")]
  /\ rsInst' = [rsInst EXCEPT ![c] = i]
  /\ rsPc' = [rsPc EXCEPT ![c] = "stopped"]
  /\ UNCHANGED <<mgrVars, addVars, instVars, timeoutTimer, resetReturns, connectHist,
                 killSent, datReturned>>
  /\ UNCHANGED notChrome

\* Instance.ResetTimeout, line 137: timeoutTimer.Stop(), which is true when
\* the call stops the timer.  The caller has the instance from GetInstance.
\* The calls in progress at one time are on one instance: calls on different
\* instances share no field.
ResetTimeoutStop(c, i) ==
  /\ rsPc[c] = "idle"
  /\ i \in instances
  /\ timeoutTimer[i] # "nil"
  /\ \A d \in Resetters : rsPc[d] # "idle" => rsInst[d] = i
  /\ beforeTimedout' = [beforeTimedout EXCEPT ![c] = (timeoutTimer[i] = "armed")]
  /\ timeoutTimer' = [timeoutTimer EXCEPT ![i] = IF @ = "armed" THEN "stopped" ELSE @]
  /\ rsInst' = [rsInst EXCEPT ![c] = i]
  /\ rsPc' = [rsPc EXCEPT ![c] = "stopped"]
  /\ UNCHANGED <<mgrVars, addVars, instVars, resetReturns, connectHist, killSent,
                 datReturned>>
  /\ UNCHANGED notChrome

\* Instance.ResetTimeout, lines 138-141: Reset when Stop was true, and the
\* return.
ResetTimeoutReturn(c) ==
  /\ rsPc[c] = "stopped"
  /\ timeoutTimer' = IF beforeTimedout[c]
                     THEN [timeoutTimer EXCEPT ![rsInst[c]] = "armed"]
                     ELSE timeoutTimer
  /\ resetReturns' = {[ret |-> beforeTimedout[c],
                        fired |-> timeoutTimer[rsInst[c]] = "fired",
                        armed |-> timeoutTimer'[rsInst[c]] = "armed"]}
  /\ rsPc' = [rsPc EXCEPT ![c] = "idle"]
  /\ rsInst' = [rsInst EXCEPT ![c] = 0]
  /\ beforeTimedout' = [beforeTimedout EXCEPT ![c] = FALSE]
  /\ UNCHANGED <<mgrVars, addVars, instVars, connectHist, killSent, datReturned>>
  /\ UNCHANGED notChrome

\* close(ch): closing a channel that is nil or already closed panics.
closeChan(ch) == IF ch = "open" THEN "closed" ELSE "panic"

\* DisconnectAndTerminate that does not look at devtoolsConn first.
DisconnectAndTerminateBodyUnguarded(i) ==
  /\ pageLoadCompletes' = [pageLoadCompletes EXCEPT ![i] = closeChan(@)]
  /\ devtoolsConn' = [devtoolsConn EXCEPT ![i] = "nil"]
  /\ \E killOk \in BOOLEAN :
       LET k == killInstance(i, killOk) IN
         /\ Command' = [Command EXCEPT ![i] = k.Command]
         /\ userDir' = [userDir EXCEPT ![i] = k.userDir]
  /\ killSent' = [killSent EXCEPT ![i] = TRUE]
  /\ datReturned' = [datReturned EXCEPT ![i] = TRUE]
  /\ UNCHANGED ready

\* The body of Instance.DisconnectAndTerminate on instance i, under mu.
DisconnectAndTerminateBody(i) ==
  IF devtoolsConn[i] = "nil"
  THEN UNCHANGED <<instVars, killSent, datReturned>>
  ELSE /\ pageLoadCompletes' = [pageLoadCompletes EXCEPT ![i] = closeChan(@)]
       /\ devtoolsConn' = [devtoolsConn EXCEPT ![i] = "nil"]
       /\ \E killOk \in BOOLEAN :
            LET k == killInstance(i, killOk) IN
              /\ Command' = [Command EXCEPT ![i] = k.Command]
              /\ userDir' = [userDir EXCEPT ![i] = k.userDir]
       /\ killSent' = [killSent EXCEPT ![i] = TRUE]
       /\ datReturned' = [datReturned EXCEPT ![i] = TRUE]
       /\ UNCHANGED ready

\* Instance.DisconnectAndTerminate called by a handler, which has the
\* instance from GetInstance and has passed WaitUntilChromeReady.
DisconnectAndTerminate(i) ==
  /\ i \in instances
  /\ timeoutTimer[i] # "nil"
  /\ ready[i]
  /\ DisconnectAndTerminateBody(i)
  /\ UNCHANGED <<mgrVars, addVars, timeoutTimer, resetVars, connectHist>>
  /\ UNCHANGED notChrome

\* The timer of InitializeTimeout expires and its function runs
\* DisconnectAndTerminate.
TimerFire(i) ==
  /\ timeoutTimer[i] = "armed"
  /\ timeoutTimer' = [timeoutTimer EXCEPT ![i] = "fired"]
  /\ DisconnectAndTerminateBody(i)
  /\ UNCHANGED <<mgrVars, addVars, resetVars, connectHist>>
  /\ UNCHANGED notChrome

NextChrome ==
  \/ AddInstanceStart
  \/ AddInstanceGetPort
  \/ AddInstanceNew
  \/ AddInstanceWait
  \/ ConnectDial
  \/ ConnectGiveUp
  \/ AddInstanceEnqueue
  \/ GetNewInstance
  \/ \E i \in InstanceIDs : RemoveInstance(i)
  \/ \E c \in Resetters, i \in InstanceIDs : ResetTimeoutStop(c, i)
  \/ \E c \in Resetters : ResetTimeoutReturn(c)
  \/ \E i \in InstanceIDs : DisconnectAndTerminate(i)
  \/ \E i \in InstanceIDs : TimerFire(i)

(***************************************************************************)
(* The preview handlers: hdpreviews.Handler.ServeHTTP                      *)
(* (src/previews/hdpreviews/hdpreviews.go), stream.Handler.ServeHTTP       *)
(* (src/previews/streaminghdpreviews/stream/stream.go) and the acquiring   *)
(* part of streaminghdpreviews.Handler.ServeHTTP.  Each serves one         *)
(* request.  A handler calls RemoveInstance, ResetTimeout and              *)
(* DisconnectAndTerminate on the instance it acquired.                     *)
(***************************************************************************)
\* http.StatusOK, http.StatusBadGateway and http.StatusInternalServerError.
StatusOK == 200
StatusBadGateway == 502
StatusInternalServerError == 500

\* Number of update batches the stream handler writes for one request.
MaxFrames == 2

\* What http.Get of the goroutine of lines 73-80 can give: an error, with a
\* nil response (0), or the response of the origin with its status code.
OriginResponses == {0, StatusOK, StatusBadGateway}

\* What a handler sees in the event it gets from NextEvent.
EventMethods == {"Emulation.virtualTimeBudgetExpired", "other"}

HandlersInit ==
  /\ hpc = "idle"
  /\ instanceID = 0
  /\ statusCodeChan = "nil"
  /\ probe = "none"
  /\ originResponse = 0
  /\ written = <<>>
  /\ loaded = "nil"
  /\ loopPc = "none"
  /\ pageStabilized = FALSE
  /\ spc = "idle"
  /\ chromeID = 0
  /\ sEnd = ""
  /\ sFrames = 0
  /\ sErr = ""
  /\ sspc = "idle"
  /\ slowWritten = <<>>

\* A panic in a goroutine other than the one net/http serves the request
\* on, or log.Fatalf, ends the process.
Crashed ==
  \/ probe = "panic"
  \/ loopPc = "panic"
  \/ hpc = "fatal"

\* hdpreviews ServeHTTP, lines 69-80: a preview request arrives; make
\* statusCodeChan and start the goroutine that gets the status code.
BatchServeHTTP ==
  /\ ~Crashed
  /\ hpc = "idle"
  /\ statusCodeChan' = "open"
  /\ probe' = "get"
  /\ hpc' = "acquire"
  /\ UNCHANGED <<instanceID, originResponse, written, loaded, loopPc, pageStabilized>>
  /\ UNCHANGED <<chromeVars, streamVars, notHandlers>>

\* Lines 75-78: http.Get returns.
ProbeGet ==
  /\ ~Crashed
  /\ probe = "get"
  /\ \E r \in OriginResponses :
       /\ originResponse' = r
       /\ probe' = IF r = 0 THEN "send502" ELSE "sendStatus"
  /\ UNCHANGED <<hpc, instanceID, statusCodeChan, written, loaded, loopPc, pageStabilized>>
  /\ UNCHANGED <<chromeVars, streamVars, notHandlers>>

\* Lines 77-79: the goroutine panics when it sends on statusCodeChan after
\* the handler closed it, and when it reads response.StatusCode of the nil
\* response after its first send.
ProbePanic ==
  /\ ~Crashed
  /\ \/ probe \in {"send502", "sendStatus"} /\ statusCodeChan = "closed"
     \/ probe = "sendStatus" /\ originResponse = 0
  /\ probe' = "panic"
  /\ UNCHANGED <<hpc, instanceID, statusCodeChan, originResponse, written, loaded, loopPc,
                 pageStabilized>>
  /\ UNCHANGED <<chromeVars, streamVars, notHandlers>>

\* Lines 82-83: GetNewInstance, which blocks until the queue has an ID, with
\* InitializeTimeout; RemoveInstance is deferred.
BatchGetNewInstance ==
  /\ ~Crashed
  /\ hpc = "acquire"
  /\ instanceQueue # <<>>
  /\ LET nextID == Head(instanceQueue) IN
       /\ nextID \in instances
       /\ timeoutTimer[nextID] = "nil"
       /\ instanceQueue' = Tail(instanceQueue)
       /\ urls' = urls \cup {nextID}
       /\ timeoutTimer' = [timeoutTimer EXCEPT ![nextID] = "armed"]
       /\ instanceID' = nextID
  /\ hpc' = "ready"
  /\ UNCHANGED <<statusCodeChan, probe, originResponse, written, loaded, loopPc,
                 pageStabilized>>
  /\ UNCHANGED <<nextInstanceID, instances, addVars, instVars, resetVars, connectHist,
                 killSent, datReturned>>
  /\ UNCHANGED <<streamVars, notHandlers>>

\* What GetInstance, WaitUntilChromeReady and ResetTimeout give a handler
\* for instance i: "ok", or "fail" when the instance is not in the map, is
\* not connected, or its timer is no longer running.  ResetTimeout leaves a
\* running timer running.
GetReadyInstance(i) ==
  IF i \in instances /\ devtoolsConn[i] # "nil" /\ timeoutTimer[i] = "armed"
  THEN "ok"
  ELSE "fail"

\* Lines 85-98: GetInstance, WaitUntilChromeReady, which blocks until ready
\* is closed, and ResetTimeout; 502 when one of them fails, else
\* DisconnectAndTerminate is deferred.
BatchWaitUntilChromeReady ==
  /\ ~Crashed
  /\ hpc = "ready"
  /\ instanceID \in instances => ready[instanceID]
  /\ IF GetReadyInstance(instanceID) = "ok"
     THEN /\ hpc' = "navigate"
          /\ UNCHANGED written
     ELSE /\ hpc' = "unwind"
          /\ written' = Append(written, StatusBadGateway)
  /\ UNCHANGED <<instanceID, statusCodeChan, probe, originResponse, loaded, loopPc,
                 pageStabilized>>
  /\ UNCHANGED <<chromeVars, streamVars, notHandlers>>

\* Lines 101-122: NavigateToPage, which ends the process with log.Fatalf
\* when devtoolsConn is nil; make loaded and start the goroutine that reads
\* the events.
BatchNavigateToPage ==
  /\ ~Crashed
  /\ hpc = "navigate"
  /\ IF devtoolsConn[instanceID] = "nil"
     THEN /\ hpc' = "fatal"
          /\ UNCHANGED <<loaded, loopPc>>
     ELSE /\ hpc' = "waitLoaded"
          /\ loaded' = "open"
          /\ loopPc' = "call"
  /\ UNCHANGED <<instanceID, statusCodeChan, probe, originResponse, written, pageStabilized>>
  /\ UNCHANGED <<chromeVars, streamVars, notHandlers>>

\* Line 106 and Instance.NextEvent: ResetTimeout, which leaves a running
\* timer running, then devtoolsConn.NextEvent().  The read of devtoolsConn is
\* not under mu: after DisconnectAndTerminate it gives nil, and the call
\* panics, or the Connection that was there, which is closed.
LoopNextEvent ==
  /\ ~Crashed
  /\ loopPc = "call"
  /\ \E seen \in {devtoolsConn[instanceID], "open"} :
       loopPc' = IF seen = "nil" THEN "panic" ELSE "blocked"
  /\ UNCHANGED <<hpc, instanceID, statusCodeChan, probe, originResponse, written, loaded,
                 pageStabilized>>
  /\ UNCHANGED <<chromeVars, streamVars, notHandlers>>

\* Lines 107-121 for an event of Chrome: every event after the page has
\* stabilized is thrown away; Emulation.virtualTimeBudgetExpired closes
\* loaded.
LoopEvent ==
  /\ ~Crashed
  /\ loopPc = "blocked"
  /\ devtoolsConn[instanceID] # "nil"
  /\ \E method \in EventMethods :
       IF ~pageStabilized /\ method = "Emulation.virtualTimeBudgetExpired"
       THEN /\ pageStabilized' = TRUE
            /\ loaded' = closeChan(loaded)
       ELSE UNCHANGED <<pageStabilized, loaded>>
  /\ loopPc' = "call"
  /\ UNCHANGED <<hpc, instanceID, statusCodeChan, probe, originResponse, written>>
  /\ UNCHANGED <<chromeVars, streamVars, notHandlers>>

\* Lines 107-110: NextEvent gives io.EOF once the Connection is closed; the
\* goroutine ends and leaves loaded as it is.
LoopEOF ==
  /\ ~Crashed
  /\ loopPc = "blocked"
  /\ devtoolsConn[instanceID] = "nil"
  /\ loopPc' = "exited"
  /\ UNCHANGED <<hpc, instanceID, statusCodeChan, probe, originResponse, written, loaded,
                 pageStabilized>>
  /\ UNCHANGED <<chromeVars, streamVars, notHandlers>>

\* Lines 123-147: loaded is closed; GetDOM, which ends the process with
\* log.Fatalf when devtoolsConn is nil and can fail; removeScriptTags and
\* gzip.NewWriterLevel, which do not fail on a string and a valid level.
BatchGetDOM ==
  /\ ~Crashed
  /\ hpc = "waitLoaded"
  /\ loaded = "closed"
  /\ IF devtoolsConn[instanceID] = "nil"
     THEN /\ hpc' = "fatal"
          /\ UNCHANGED written
     ELSE \E ok \in BOOLEAN :
            IF ok
            THEN /\ hpc' = "statusCode"
                 /\ UNCHANGED written
            ELSE /\ hpc' = "unwindAll"
                 /\ written' = Append(written, StatusBadGateway)
  /\ UNCHANGED <<instanceID, statusCodeChan, probe, originResponse, loaded, loopPc,
                 pageStabilized>>
  /\ UNCHANGED <<chromeVars, streamVars, notHandlers>>

\* Lines 149-156 with the sends of lines 77 and 79: statusCodeChan has no
\* buffer, so a send and the receive happen together; the handler writes the
\* status code it received and the body.
BatchWriteHeader ==
  /\ ~Crashed
  /\ hpc = "statusCode"
  /\ \/ probe = "send502"
     \/ probe = "sendStatus" /\ originResponse # 0
  /\ LET statusCode == IF probe = "send502" THEN StatusBadGateway ELSE originResponse IN
       written' = Append(written, statusCode)
  /\ probe' = IF probe = "send502" THEN "sendStatus" ELSE "done"
  /\ hpc' = "unwindAll"
  /\ UNCHANGED <<instanceID, statusCodeChan, originResponse, loaded, loopPc, pageStabilized>>
  /\ UNCHANGED <<chromeVars, streamVars, notHandlers>>

\* The deferred calls of a handler that returns: DisconnectAndTerminate when
\* it was deferred, then RemoveInstance(i).
Unwind(i, all) ==
  /\ IF all
     THEN DisconnectAndTerminateBody(i)
     ELSE UNCHANGED <<instVars, killSent, datReturned>>
  /\ instances' = instances \ {i}
  /\ urls' = urls \ {i}
  /\ UNCHANGED <<nextInstanceID, instanceQueue, addVars, timeoutTimer, resetVars, connectHist>>

\* A return of the handler that forgets the deferred RemoveInstance.
BatchReturnNoRemove ==
  /\ ~Crashed
  /\ hpc \in {"unwind", "unwindAll"}
  /\ IF hpc = "unwindAll"
     THEN DisconnectAndTerminateBody(instanceID)
     ELSE UNCHANGED <<instVars, killSent, datReturned>>
  /\ UNCHANGED <<mgrVars, addVars, timeoutTimer, resetVars, connectHist>>
  /\ statusCodeChan' = closeChan(statusCodeChan)
  /\ hpc' = "returned"
  /\ UNCHANGED <<instanceID, probe, originResponse, written, loaded, loopPc, pageStabilized>>
  /\ UNCHANGED <<streamVars, notHandlers>>

\* hdpreviews ServeHTTP returns and its deferred calls run: writer.Close,
\* DisconnectAndTerminate, RemoveInstance, close(statusCodeChan).
BatchReturn ==
  /\ ~Crashed
  /\ hpc \in {"unwind", "unwindAll"}
  /\ Unwind(instanceID, hpc = "unwindAll")
  /\ statusCodeChan' = closeChan(statusCodeChan)
  /\ hpc' = "returned"
  /\ UNCHANGED <<instanceID, probe, originResponse, written, loaded, loopPc, pageStabilized>>
  /\ UNCHANGED <<streamVars, notHandlers>>

\* streaminghdpreviews ServeHTTP, line 142: GetNewInstance for a preview
\* request; the page it returns gives chromeID to the client.
StreamingGetNewInstance ==
  /\ ~Crashed
  /\ spc = "idle"
  /\ instanceQueue # <<>>
  /\ LET nextID == Head(instanceQueue) IN
       /\ nextID \in instances
       /\ timeoutTimer[nextID] = "nil"
       /\ instanceQueue' = Tail(instanceQueue)
       /\ urls' = urls \cup {nextID}
       /\ timeoutTimer' = [timeoutTimer EXCEPT ![nextID] = "armed"]
       /\ chromeID' = nextID
  /\ spc' = "client"
  /\ UNCHANGED <<sEnd, sFrames, sErr, sspc, slowWritten>>
  /\ UNCHANGED <<nextInstanceID, instances, addVars, instVars, resetVars, connectHist,
                 killSent, datReturned>>
  /\ UNCHANGED <<batchVars, notHandlers>>

\* stream ServeHTTP, lines 84-108, for the request of the client with its
\* id: RemoveInstance is deferred; GetInstance, WaitUntilChromeReady and
\* ResetTimeout; 502 when one of them fails, else DisconnectAndTerminate is
\* deferred.
StreamServeHTTP ==
  /\ ~Crashed
  /\ spc = "client"
  /\ chromeID \in instances => ready[chromeID]
  /\ spc' = IF GetReadyInstance(chromeID) = "ok" THEN "events" ELSE "unwind"
  /\ UNCHANGED <<chromeID, sEnd, sFrames, sErr, sspc, slowWritten>>
  /\ UNCHANGED <<chromeVars, batchVars, notHandlers>>

\* The events stream ServeHTTP has a case for, lines 35-49, and any other
\* event.
DomDocumentUpdated == "DOM.documentUpdated"
EmulationVirtualTimeBudgetExpired == "Emulation.virtualTimeBudgetExpired"
StreamMethods ==
  {DomDocumentUpdated, "DOM.childNodeCountUpdated", "DOM.setChildNodes",
   "DOM.childNodeInserted", "DOM.attributeModified", "DOM.childNodeRemoved",
   EmulationVirtualTimeBudgetExpired, "other"}

\* How the handling of an event goes: the DOM model gives updates and
\* sendMessage writes them; GetDOMInstance or the DOM model returns an
\* error; sendMessage returns an error.
StreamOutcomes == {"sent", "translation error", "write error"}

\* stream ServeHTTP, lines 134-183, and handleNodeUpdate: the switch on
\* event.Method, given how the handling goes: what makes the loop return (""
\* when it goes on to the next event), the number of batches written and
\* the error the handling gave ("" when none).
StreamLoop(method, outcome) ==
  CASE method = DomDocumentUpdated ->
         [end |-> IF outcome = "sent" THEN "" ELSE outcome,
          frames |-> IF outcome = "sent" THEN 1 ELSE 0,
          err |-> IF outcome = "sent" THEN "" ELSE outcome]
    [] method \in {"DOM.setChildNodes", "DOM.childNodeInserted", "DOM.attributeModified",
                   "DOM.childNodeRemoved"} ->
         [end |-> "",
          frames |-> IF outcome = "sent" THEN 1 ELSE 0,
          err |-> IF outcome = "sent" THEN "" ELSE outcome]
    [] method = EmulationVirtualTimeBudgetExpired ->
         [end |-> method, frames |-> 0, err |-> ""]
    [] OTHER -> [end |-> "", frames |-> 0, err |-> ""]

\* stream ServeHTTP, lines 128-184, with Instance.NextEvent: once
\* DisconnectAndTerminate has run, a call that was waiting in the Connection
\* gives io.EOF and the handler returns, and a call that starts reads the
\* nil devtoolsConn and panics, which ends the handler as well; else the
\* handler handles the event and returns or goes on to the next one.
StreamNextEvent ==
  /\ ~Crashed
  /\ spc = "events"
  /\ IF devtoolsConn[chromeID] = "nil"
     THEN /\ spc' = "unwindAll"
          /\ sEnd' \in {"io.EOF", "panic"}
          /\ sErr' = ""
          /\ UNCHANGED sFrames
     ELSE \E method \in StreamMethods, outcome \in StreamOutcomes :
            LET r == StreamLoop(method, outcome) IN
              /\ sFrames + r.frames <= MaxFrames
              /\ sFrames' = sFrames + r.frames
              /\ sEnd' = r.end
              /\ sErr' = r.err
              /\ spc' = IF r.end = "" THEN "events" ELSE "unwindAll"
  /\ UNCHANGED <<chromeID, sspc, slowWritten>>
  /\ UNCHANGED <<chromeVars, batchVars, notHandlers>>

\* streaminghdpreviews ServeHTTP, lines 106-118, and handleSlowScript, lines
\* 201-205: the client asks for the slow script with the id it was given;
\* GetInstance fails when the instance is no longer in the map.
SlowScriptServeHTTP ==
  /\ ~Crashed
  /\ sspc = "idle"
  /\ spc # "idle"
  /\ IF chromeID \in instances
     THEN /\ sspc' = "waitReady"
          /\ UNCHANGED slowWritten
     ELSE /\ sspc' = "returned"
          /\ slowWritten' = Append(slowWritten, StatusInternalServerError)
  /\ UNCHANGED <<spc, chromeID, sEnd, sFrames, sErr>>
  /\ UNCHANGED <<chromeVars, batchVars, notHandlers>>

\* handleSlowScript, lines 207-211, and ServeHTTP, lines 119-125:
\* WaitUntilChromeReady blocks until ready is closed and fails when
\* devtoolsConn is nil; when ResetTimeout gives false the err that is
\* returned is the nil of WaitUntilChromeReady, and ServeHTTP writes 200.
SlowScriptWaitUntilChromeReady ==
  /\ ~Crashed
  /\ sspc = "waitReady"
  /\ ready[chromeID]
  /\ IF devtoolsConn[chromeID] = "nil"
     THEN /\ sspc' = "returned"
          /\ slowWritten' = Append(slowWritten, StatusInternalServerError)
     ELSE IF timeoutTimer[chromeID] # "armed"
     THEN /\ sspc' = "returned"
          /\ slowWritten' = Append(slowWritten, StatusOK)
     ELSE /\ sspc' = "waitLoad"
          /\ UNCHANGED slowWritten
  /\ UNCHANGED <<spc, chromeID, sEnd, sFrames, sErr>>
  /\ UNCHANGED <<chromeVars, batchVars, notHandlers>>

\* handleSlowScript, lines 213-214, and ServeHTTP, lines 123-125:
\* WaitUntilPageLoadCompletes blocks until pageLoadCompletes is closed.
SlowScriptWaitUntilPageLoadCompletes ==
  /\ ~Crashed
  /\ sspc = "waitLoad"
  /\ pageLoadCompletes[chromeID] = "closed"
  /\ sspc' = "returned"
  /\ slowWritten' = Append(slowWritten, StatusOK)
  /\ UNCHANGED <<spc, chromeID, sEnd, sFrames, sErr>>
  /\ UNCHANGED <<chromeVars, batchVars, notHandlers>>

\* stream ServeHTTP returns and its deferred calls run: writer.Close,
\* DisconnectAndTerminate, RemoveInstance.
StreamReturn ==
  /\ ~Crashed
  /\ spc \in {"unwind", "unwindAll"}
  /\ Unwind(chromeID, spc = "unwindAll")
  /\ spc' = "returned"
  /\ UNCHANGED <<chromeID, sEnd, sFrames, sErr, sspc, slowWritten>>
  /\ UNCHANGED <<batchVars, notHandlers>>

\* A step of the addInstance goroutine while the process runs.
RunningAddInstance ==
  /\ ~Crashed
  /\ \/ AddInstanceStart
     \/ AddInstanceGetPort
     \/ AddInstanceNew
     \/ AddInstanceWait
     \/ ConnectDial
     \/ ConnectGiveUp
     \/ AddInstanceEnqueue

\* The idle timer of instance i expires while the process runs.
RunningTimerFire(i) ==
  /\ ~Crashed
  /\ TimerFire(i)

\* The two handlers, the goroutine that fills the queue and the idle timers,
\* until the process ends.
NextHandlers ==
  \/ BatchServeHTTP
  \/ ProbeGet
  \/ ProbePanic
  \/ BatchGetNewInstance
  \/ BatchWaitUntilChromeReady
  \/ BatchNavigateToPage
  \/ LoopNextEvent
  \/ LoopEvent
  \/ LoopEOF
  \/ BatchGetDOM
  \/ BatchWriteHeader
  \/ BatchReturn
  \/ StreamingGetNewInstance
  \/ StreamServeHTTP
  \/ StreamNextEvent
  \/ StreamReturn
  \/ RunningAddInstance
  \/ \E i \in InstanceIDs : RunningTimerFire(i)

\* The streaming preview alone: the handler that acquires the instance, the
\* stream handler and the slow-script handler of one client, the goroutine
\* that fills the queue and the idle timers.
NextStream ==
  \/ StreamingGetNewInstance
  \/ StreamServeHTTP
  \/ StreamNextEvent
  \/ StreamReturn
  \/ SlowScriptServeHTTP
  \/ SlowScriptWaitUntilChromeReady
  \/ SlowScriptWaitUntilPageLoadCompletes
  \/ RunningAddInstance
  \/ \E i \in InstanceIDs : RunningTimerFire(i)

(***************************************************************************)
(* removeScriptTags (src/previews/hdpreviews/hdpreviews.go) over the       *)
(* tokens that html.Tokenizer gives for dom.  A string is one of a few     *)
(* texts, an attribute key a sequence of letters.                          *)
(***************************************************************************)
MaxTokens == 3

\* The text of a script element written out, and the same text escaped once
\* and twice.
Markup == "<script>x</script>"
Escaped == "&lt;script&gt;x&lt;/script&gt;"
EscapedTwice == "&amp;lt;script&amp;gt;x&amp;lt;/script&amp;gt;"

\* html.EscapeString on the texts it is applied to here.
EscapeString(s) ==
  CASE s = Markup -> Escaped
    [] s = Escaped -> EscapedTwice
    [] OTHER -> s

\* html.UnescapeString.
UnescapeString(s) ==
  CASE s = EscapedTwice -> Escaped
    [] s = Escaped -> Markup
    [] OTHER -> s

\* strings.HasPrefix.
HasPrefix(s, prefix) ==
  /\ Len(s) >= Len(prefix)
  /\ SubSeq(s, 1, Len(prefix)) = prefix

\* handlerutils.IsEventHandler.
IsEventHandler(s) == HasPrefix(s, <<"o", "n">>)

\* The tokenizer gives attribute keys in lower case.
LowerKey(s) ==
  [k \in 1..Len(s) |-> CASE s[k] = "O" -> "o"
                         [] s[k] = "N" -> "n"
                         [] OTHER -> s[k]]

\* The attribute keys of a tag as written in dom.
AttrKeyLists ==
  {<<>>, <<<<"o", "n", "x">>, <<"i", "d">>>>, <<<<"O", "N", "x">>>>}

TagNames == {"script", "style", "p"}

\* What dom is made of: text, start tags, end tags and self-closing tags.
Lexemes ==
  {[Type |-> "Text", Data |-> d, Attr |-> <<>>] : d \in {"x", Markup, Escaped}}
    \cup {[Type |-> "StartTag", Data |-> n, Attr |-> a] : n \in TagNames, a \in AttrKeyLists}
    \cup {[Type |-> "EndTag", Data |-> n, Attr |-> <<>>] : n \in TagNames}
    \cup {[Type |-> "SelfClosingTag", Data |-> n, Attr |-> <<>>] : n \in {"script", "p"}}

\* After the start tag of a script or style element, self-closing or not,
\* the tokenizer takes what follows up to the matching end tag as raw text.
OpensRaw(l) ==
  /\ l.Type \in {"StartTag", "SelfClosingTag"}
  /\ l.Data \in {"script", "style"}

IsRaw(d, k) == k > 1 /\ OpensRaw(d[k - 1])

\* The sequences of lexemes the tokenizer can give: no text after text; raw
\* text ends at the matching end tag and so holds no end tag of its element;
\* text that is not raw holds no tag.
WellFormedDOM(d) ==
  \A k \in 1..Len(d) :
    /\ d[k].Type = "Text" /\ k > 1 => d[k - 1].Type # "Text"
    /\ IsRaw(d, k) =>
         \/ d[k].Type = "Text" /\ (d[k].Data = Markup => d[k - 1].Data = "style")
         \/ d[k].Type = "EndTag" /\ d[k].Data = d[k - 1].Data
    /\ k > 2 /\ IsRaw(d, k - 1) /\ d[k - 1].Type = "Text" =>
         d[k].Type = "EndTag" /\ d[k].Data = d[k - 2].Data
    /\ d[k].Type = "Text" /\ ~IsRaw(d, k) => d[k].Data # Markup

AllDOMs == UNION {[1..n -> Lexemes] : n \in 0..MaxTokens}

DOMs == {d \in AllDOMs : WellFormedDOM(d)}

\* z.Token() for the k-th token of d: text that is not raw is unescaped, the
\* attribute keys are in lower case.
Token(d, k) ==
  [Type |-> d[k].Type,
   Data |-> IF d[k].Type = "Text" /\ ~IsRaw(d, k)
            THEN UnescapeString(d[k].Data)
            ELSE d[k].Data,
   Attr |-> [j \in 1..Len(d[k].Attr) |-> LowerKey(d[k].Attr[j])]]

\* Token.DataAtom: the atom of a tag name, none for text.
DataAtom(tk) == IF tk.Type = "Text" THEN "" ELSE tk.Data

\* Token.String(): the text escaped, or the tag with its attributes.
TokenString(tk) ==
  IF tk.Type = "Text" THEN [tk EXCEPT !.Data = EscapeString(@)] ELSE tk

SanInit ==
  /\ dom = <<>>
  /\ z = 0
  /\ response = <<>>
  /\ firstToken = TRUE
  /\ lastTokenWasScript = FALSE
  /\ lastTokenWasStyle = FALSE
  /\ sanPc = "idle"

\* removeScriptTags is called, lines 165-171.
removeScriptTagsCall ==
  /\ sanPc = "idle"
  /\ \E d \in DOMs : dom' = d
  /\ z' = 0
  /\ response' = <<>>
  /\ firstToken' = TRUE
  /\ lastTokenWasScript' = FALSE
  /\ lastTokenWasStyle' = FALSE
  /\ sanPc' = "loop"
  /\ UNCHANGED notSan

\* What one turn of the loop, lines 173-217, appends to response for the
\* token tk at place pos: a sequence of no or one piece.
EmittedFor(tk, pos) ==
  LET resultAttrs == SelectSeq(tk.Attr, LAMBDA a : ~IsEventHandler(a))
      stripped == [tk EXCEPT !.Attr = resultAttrs]
      str == TokenString(stripped)
      piece(s) == <<[pos |-> pos, Type |-> s.Type, Data |-> s.Data, Attr |-> s.Attr]>>
  IN  IF firstToken /\ tk.Type = "Text"
      THEN piece([str EXCEPT !.Data = UnescapeString(@)])
      ELSE IF lastTokenWasScript /\ tk.Type = "Text"
      THEN <<>>
      ELSE IF DataAtom(tk) = "script"
      THEN <<>>
      ELSE IF lastTokenWasStyle /\ tk.Type = "Text"
      THEN piece([str EXCEPT !.Data = UnescapeString(@)])
      ELSE piece(str)

\* One turn of the loop, lines 173-217, for the next token.
removeScriptTagsNext ==
  /\ sanPc = "loop"
  /\ z < Len(dom)
  /\ LET tk == Token(dom, z + 1) IN
       /\ response' = response \o EmittedFor(tk, z + 1)
       /\ IF firstToken /\ tk.Type = "Text"
          THEN UNCHANGED <<firstToken, lastTokenWasScript, lastTokenWasStyle>>
          ELSE /\ firstToken' = FALSE
               /\ IF lastTokenWasScript /\ tk.Type = "Text"
                  THEN UNCHANGED <<lastTokenWasScript, lastTokenWasStyle>>
                  ELSE /\ lastTokenWasScript' = (tk.Type = "StartTag" /\ DataAtom(tk) = "script")
                       /\ lastTokenWasStyle' = (tk.Type = "StartTag" /\ DataAtom(tk) = "style")
  /\ z' = z + 1
  /\ UNCHANGED <<dom, sanPc>>
  /\ UNCHANGED notSan

\* Lines 174-178 and 219: z.Next() gives ErrorToken with io.EOF at the end
\* of dom, and removeScriptTags returns response.  A strings.Reader gives no
\* other error.
removeScriptTagsReturn ==
  /\ sanPc = "loop"
  /\ z = Len(dom)
  /\ sanPc' = "done"
  /\ UNCHANGED <<dom, z, response, firstToken, lastTokenWasScript, lastTokenWasStyle>>
  /\ UNCHANGED notSan

NextSan ==
  \/ removeScriptTagsCall
  \/ removeScriptTagsNext
  \/ removeScriptTagsReturn

(***************************************************************************)
(* Specifications.                                                         *)
(***************************************************************************)
vars == <<connVars, domVars, chromeVars, handlerVars>>

\* A new Connection, a new DOM model and a new InstanceManager; no request
\* has arrived and removeScriptTags has not been called.
Init ==
  /\ ConnInit
  /\ DomInit
  /\ ChromeInit
  /\ HandlersInit
  /\ SanInit

SpecConn == Init /\ [][NextConn]_vars

SpecDOM == Init /\ [][NextDOM]_vars

SpecChrome == Init /\ [][NextChrome]_vars

SpecHandlers == Init /\ [][NextHandlers]_vars

SpecSan == Init /\ [][NextSan]_vars

SpecStream == Init /\ [][NextStream]_vars

\* Every goroutine of the process that can take a step takes one, a timer
\* that stays armed expires, and http.Get returns.  Chrome need not send an
\* event, and no request need arrive.
FairHandlers ==
  /\ WF_vars(ProbeGet)
  /\ WF_vars(ProbePanic)
  /\ WF_vars(BatchGetNewInstance)
  /\ WF_vars(BatchWaitUntilChromeReady)
  /\ WF_vars(BatchNavigateToPage)
  /\ WF_vars(LoopNextEvent)
  /\ WF_vars(LoopEOF)
  /\ WF_vars(BatchGetDOM)
  /\ WF_vars(BatchWriteHeader)
  /\ WF_vars(BatchReturn)
  /\ WF_vars(StreamServeHTTP)
  /\ WF_vars(StreamReturn)
  /\ WF_vars(RunningAddInstance)
  /\ \A i \in InstanceIDs : WF_vars(RunningTimerFire(i))

SpecHandlersLive == Init /\ [][NextHandlers]_vars /\ FairHandlers

\* The timer of time.AfterFunc runs its function once the duration has
\* passed, unless it is stopped first.
FairTimers == \A i \in InstanceIDs : WF_vars(TimerFire(i))

\* The producer, the acquiring handlers, the ResetTimeout callers and the
\* timers: the part of the system the idle timer depends on.
NextChromeTimer ==
  \/ AddInstanceStart
  \/ AddInstanceGetPort
  \/ AddInstanceNew
  \/ AddInstanceWait
  \/ ConnectDial
  \/ ConnectGiveUp
  \/ AddInstanceEnqueue
  \/ GetNewInstance
  \/ \E c \in Resetters, i \in InstanceIDs : ResetTimeoutStop(c, i)
  \/ \E c \in Resetters : ResetTimeoutReturn(c)
  \/ \E i \in InstanceIDs : TimerFire(i)

SpecChromeLive == Init /\ [][NextChromeTimer]_vars /\ FairTimers

\* The goroutines of the Connection and the task in Close take the steps
\* they can take, and the browser drops the socket after the close control
\* frame.  Nobody need call NextEvent or invoke a method, and the browser
\* need not send anything else.
FairConn ==
  /\ WF_vars(WriterExit)
  /\ WF_vars(CloseWriteControl)
  /\ WF_vars(CloseFinish)
  /\ WF_vars(BrowserClose)
  /\ WF_vars(ReaderRead)
  /\ WF_vars(ReaderDeliver)
  /\ WF_vars(ReaderEnqueue)

SpecConnLive == Init /\ [][NextConn]_vars /\ FairConn

(***************************************************************************)
(* Claims about devtools.Connection, checked under SpecConn.               *)
(***************************************************************************)
\* The wait calls (InvokeMethodAndGetReturn) made so far.
WaitCalls == {allocated[k].id : k \in {j \in 1..Len(allocated) : allocated[j].wait}}

\* The Results handed to the call with method ID i.
ResultsOf(i) == {k \in 1..Len(delivered) : delivered[k].call = i}

\* The call with method ID i is still inside InvokeMethodAndGetReturn.
Outstanding(i) == \E c \in Callers : cid[c] = i /\ cpc[c] \in {"gotid", "wsend", "wait"}

\* C1: the method IDs of all calls on one Connection are pairwise distinct;
\* every Result handed to an InvokeMethodAndGetReturn call carries that call's
\* own method ID and the tag result or error; no call is handed two Results,
\* and a call that has returned was handed exactly one.
C1_OneResultPerCall ==
  /\ \A j, k \in 1..Len(allocated) : j # k => allocated[j].id # allocated[k].id
  /\ \A k \in 1..Len(delivered) :
        /\ delivered[k].call \in WaitCalls
        /\ delivered[k].id = delivered[k].call
        /\ delivered[k].tagged
  /\ \A i \in WaitCalls :
        /\ Cardinality(ResultsOf(i)) <= 1
        /\ ~Outstanding(i) => Cardinality(ResultsOf(i)) = 1
        /\ Outstanding(i) => ResultsOf(i) = {}

\* Two concurrent wait calls have both returned, the later one first, while
\* event frames were arriving.
C1_Witness ==
  /\ Len(delivered) = 2
  /\ delivered[1].call > delivered[2].call
  /\ evSent # <<>>

\* The events of a sequence of EventMessages.
Methods(q) == [k \in 1..Len(q) |-> q[k].Method]

\* The event frames of a sequence of frames, in order.
RECURSIVE EventsIn(_)
EventsIn(q) ==
  IF q = <<>> THEN <<>>
  ELSE IF Head(q).type = "event" THEN <<Head(q).ev>> \o EventsIn(Tail(q))
  ELSE EventsIn(Tail(q))

C3_EOFAfterClose == \A k \in 1..Len(postClose) : postClose[k] = EOF

\* C3 as amended: after Close has returned no event enters the buffer any
\* more; NextEvent returns the events that were in the buffer when Close
\* returned, in order, and signals the end of the stream on every call after
\* the buffer is empty.
C3_DrainThenEOF ==
  closePc = "closed" =>
    /\ bufClosed
    /\ rpc = "ended"
    /\ \A k \in 1..Len(postClose) :
          postClose[k] = IF k <= Len(bufAtClose) THEN bufAtClose[k] ELSE EOF

\* After Close returned, NextEvent returned a buffered event and then the end
\* of the stream.
C3_Witness ==
  /\ closePc = "closed"
  /\ Len(postClose) >= 2
  /\ postClose[1] # EOF
  /\ postClose[Len(postClose)] = EOF

\* The updates of the stream that are inserts.
Inserts == {k \in 1..Len(emitted) : emitted[k].Action = Insert}

\* C4: over any sequence of calls on one DOM model, each stable ID appears in
\* at most one emitted insert update.
C4_OneInsertPerStableID ==
  \A j, k \in Inserts : j # k => emitted[j].Node.NodeID # emitted[k].Node.NodeID

\* C5: no update is emitted for a node whose ancestor chain, in the document
\* as the calls have described it, contains a script element.
C5_NothingBelowScript == \A k \in 1..Len(underScript) : ~underScript[k]

\* The attribute keys of the model that begin with "on", in any case.
BeginsWithOn(key) == key \in {"onclick", "ONLOAD"}

\* C6: no emitted insert carries an attribute whose key begins with "on",
\* compared case-insensitively.
C6_NoEventHandlerAttributes ==
  \A k \in Inserts : \A key \in DOMAIN emitted[k].Node.Attributes : ~BeginsWithOn(key)

\* C7: after DisconnectAndTerminate has returned on a connected instance, the
\* instance's user directory no longer exists, whatever the outcome of the
\* teardown steps.
C7_UserDirRemoved == \A i \in InstanceIDs : datReturned[i] => ~userDir[i]

\* C8: every ID in the instance queue denotes an instance whose Wait
\* succeeded, whose connection is established and whose ready gate is closed;
\* an instance whose Connect failed is never in the queue.
C8_QueueHoldsConnected ==
  \A i \in Range(instanceQueue) :
    /\ waitPassed[i]
    /\ devtoolsConn[i] = "open"
    /\ ready[i]
    /\ ~connectFailed[i]

\* C9: Connect makes at most 5 dial attempts; when all of them fail it returns
\* an error, Process.Kill has been called and the ready gate is not closed;
\* when one succeeds it returns nil with the connection set and the ready
\* gate closed.
C9_ConnectOutcome ==
  /\ dialAttempts <= tryLimit
  /\ \A i \in InstanceIDs :
       connectResult[i] # "none" =>
         IF connectFailed[i]
         THEN connectResult[i] = "err" /\ killSent[i] /\ ~ready[i]
         ELSE /\ connectResult[i] = "nil"
              /\ ready[i]
              /\ devtoolsConn[i] = "open" \/ datReturned[i]

\* C10: ResetTimeout returns false only if the timer had already expired and
\* true otherwise, and whenever it returns true the timer is armed again.
C10_ResetReportsExpiry ==
  \A r \in resetReturns :
    /\ r.ret = ~r.fired
    /\ r.ret => r.armed

(***************************************************************************)
(* Claims about the idle timer, checked under SpecChromeLive.              *)
(***************************************************************************)
\* A ResetTimeout call on instance i has stopped the timer and not returned.
ResetInProgress(i) == \E c \in Resetters : rsPc[c] = "stopped" /\ rsInst[c] = i

\* The timer function has run DisconnectAndTerminate on instance i: the
\* connection is gone, the page-load gate is not open and, for an instance
\* that had a process, Process.Kill was called.
TerminatedByTimer(i) ==
  /\ timeoutTimer[i] = "fired"
  /\ devtoolsConn[i] = "nil"
  /\ pageLoadCompletes[i] # "open"
  /\ killSent[i]

DisconnectAndTerminateCall(i) == DisconnectAndTerminate(i) \/ TimerFire(i)

\* C12: DisconnectAndTerminate is idempotent under calls from the timer
\* function and from handlers: the page-load gate is never closed twice, the
\* connection is closed once and stays gone, and a call on an instance that a
\* call has already torn down changes nothing of the instance.
C12_TeardownIdempotent ==
  /\ [](\A i \in InstanceIDs :
          /\ pageLoadCompletes[i] # "panic"
          /\ datReturned[i] => pageLoadCompletes[i] = "closed" /\ devtoolsConn[i] = "nil")
  /\ [][\A i \in InstanceIDs :
          datReturned[i] /\ DisconnectAndTerminateCall(i)
            => UNCHANGED <<instVars, killSent, datReturned>>]_vars

\* A handler has torn an instance down while its timer is still armed: the
\* timer function is going to call DisconnectAndTerminate on it again.
C12_Witness ==
  \E i \in InstanceIDs :
    /\ datReturned[i]
    /\ timeoutTimer[i] = "armed"
    /\ ENABLED TimerFire(i)

\* The connected instances that GetNewInstance has not handed out yet.
WarmInstances ==
  {i \in InstanceIDs : devtoolsConn[i] = "open" /\ timeoutTimer[i] = "nil"}

Assigned(i) ==
  \/ Command[i] # "none"
  \/ userDir[i]
  \/ i \in instances
  \/ i \in Range(instanceQueue)
  \/ timeoutTimer[i] # "nil"

\* C14: instance IDs are assigned in strictly increasing order starting at
\* 0, and no ID is returned by two GetNewInstance calls: an ID is in the
\* queue at most once and never after it has been handed out.
C14_UniqueIncreasingIDs ==
  /\ [](\A i \in InstanceIDs : Assigned(i) => i < nextInstanceID)
  /\ [][nextInstanceID' # nextInstanceID
          => nextInstanceID' = nextInstanceID + 1 /\ aid' = nextInstanceID]_vars
  /\ [](\A j, k \in 1..Len(instanceQueue) : j # k => instanceQueue[j] # instanceQueue[k])
  /\ [](\A i \in Range(instanceQueue) : timeoutTimer[i] = "nil")
  /\ [](apc \in {"port", "new", "wait", "connect", "enqueue"}
          => timeoutTimer[aid] = "nil" /\ aid \notin Range(instanceQueue))

\* Two GetNewInstance calls have returned, with the IDs 0 and 1.
C14_Witness ==
  /\ timeoutTimer[0] # "nil"
  /\ timeoutTimer[1] # "nil"
  /\ nextInstanceID = 2

\* C15: RemoveInstance(i) removes i from the instance map and from the URL
\* map and changes nothing else: not the other entries, the queue or the
\* instance; a call for an ID that is not in the map changes nothing.
C15_RemoveInstanceFrame ==
  /\ [](urls \subseteq instances)
  /\ [][\A i \in InstanceIDs :
          RemoveInstance(i) =>
            /\ instances' = instances \ {i}
            /\ urls' = urls \ {i}
            /\ i \notin instances => UNCHANGED <<instances, urls>>
            /\ UNCHANGED <<nextInstanceID, instanceQueue, instVars, timeoutTimer, killSent,
                           datReturned>>]_vars

\* An instance has been released while its connection is still open, and a
\* second RemoveInstance call for it can follow.
C15_Witness ==
  \E i \in InstanceIDs :
    /\ timeoutTimer[i] # "nil"
    /\ i \notin instances
    /\ devtoolsConn[i] = "open"
    /\ ENABLED RemoveInstance(i)

(***************************************************************************)
(* Claims about the preview handlers, checked under SpecHandlers and       *)
(* SpecHandlersLive.                                                       *)
(***************************************************************************)
\* The goroutine that reads the events has ended on io.EOF without closing
\* loaded, and ServeHTTP waits for loaded.
BatchWaitsForever ==
  /\ hpc = "waitLoaded"
  /\ loopPc = "exited"
  /\ loaded = "open"
  /\ ~Crashed

\* C16: every preview request to the batch handler eventually returns, once
\* it has its instance, and has then written exactly one status code, also
\* when the idle timer tears the instance down before
\* Emulation.virtualTimeBudgetExpired arrives.
C16_BatchRequestReturns ==
  /\ (hpc = "ready") ~> (hpc = "returned")
  /\ [](hpc = "returned" => Len(written) = 1)

ExpectedStatus == IF originResponse = 0 THEN StatusBadGateway ELSE originResponse

\* C18: a batch preview request whose rendering steps all succeed is
\* answered with the status code of the parallel GET, and with 502 when that
\* GET fails: the handler writes that code and, unless the idle timer
\* expires first, returns the response.
C18_StatusMirrorsOrigin ==
  /\ [][hpc = "statusCode" /\ hpc' # "statusCode" => written' = <<ExpectedStatus>>]_vars
  /\ (hpc = "statusCode") ~>
       \/ hpc = "returned" /\ written = <<ExpectedStatus>>
       \/ timeoutTimer[instanceID] = "fired"

\* The GET failed, the handler wrote 502, and the goroutine is about to read
\* response.StatusCode of the nil response.
ProbeAboutToPanic ==
  /\ hpc = "unwindAll"
  /\ written = <<StatusBadGateway>>
  /\ probe = "sendStatus"
  /\ originResponse = 0

(***************************************************************************)
(* Claims about removeScriptTags, checked under SpecSan.                   *)
(***************************************************************************)
IsScriptTag(l) == l.Type # "Text" /\ l.Data = "script"

\* The k-th token of d is the text of a script element.
IsScriptContent(d, k) ==
  /\ d[k].Type = "Text"
  /\ IsRaw(d, k)
  /\ d[k - 1].Data = "script"

\* The places of the tokens of d that are neither a script tag nor the text
\* of a script element, in order.
KeptPlaces(d) ==
  SelectSeq([k \in 1..Len(d) |-> k],
            LAMBDA k : ~IsScriptTag(d[k]) /\ ~IsScriptContent(d, k))

\* The k-th piece of response r reads as markup in a browser: text with a
\* tag written out that is not the text of a style element.
ReadsAsScriptTag(r, k) ==
  /\ r[k].Type = "Text"
  /\ r[k].Data = Markup
  /\ ~(k > 1 /\ r[k - 1].Type = "StartTag" /\ r[k - 1].Data = "style")

NoScriptTagIn(r) ==
  \A k \in 1..Len(r) : ~IsScriptTag(r[k]) /\ ~ReadsAsScriptTag(r, k)

NoScriptContentIn(r) ==
  \A k \in 1..Len(r) : ~IsScriptContent(dom, r[k].pos)

NoEventHandlerIn(r) ==
  \A k \in 1..Len(r) : \A j \in 1..Len(r[k].Attr) : ~IsEventHandler(r[k].Attr[j])

OthersInOrder(r) == [k \in 1..Len(r) |-> r[k].pos] = KeptPlaces(dom)

\* C19: the output of removeScriptTags holds no script start or end tag, no
\* text that was the content of a script element and no attribute whose key
\* begins with "on", and holds every other token in its original order.
C19_SanitizeRemovesScripts ==
  sanPc = "done" =>
    /\ NoScriptTagIn(response)
    /\ NoScriptContentIn(response)
    /\ NoEventHandlerIn(response)
    /\ OthersInOrder(response)


(***************************************************************************)
(* Claims about GenerateInitialDOM, checked under SpecDOM.                 *)
(***************************************************************************)
\* No node of the tree is a script element.
RECURSIVE NoScriptIn(_)
NoScriptIn(node) ==
  /\ ToLower(node.nodeName) # "script"
  /\ \A k \in 1..Len(node.children) : NoScriptIn(node.children[k])

ScriptFreeTrees == {t \in Trees : NoScriptIn(t)}

\* The nodes of a tree in depth-first pre-order, each with the backend node
\* ID of its parent and of the sibling just before it.
RECURSIVE PreOrder(_, _, _)
RECURSIVE PreOrderOfChildren(_, _, _)
PreOrder(node, parentID, prevID) ==
  <<[NodeID |-> ToString(node.backendNodeId), ParentNodeID |-> parentID,
     PreviousNodeID |-> prevID]>>
    \o PreOrderOfChildren(node.children, ToString(node.backendNodeId), "")

PreOrderOfChildren(children, parentID, prevID) ==
  IF children = <<>> THEN <<>>
  ELSE PreOrder(Head(children), parentID, prevID)
         \o PreOrderOfChildren(Tail(children), parentID, ToString(Head(children).backendNodeId))

\* What a sequence of updates says: for each, the action and the three IDs.
Placement(upds) ==
  [k \in 1..Len(upds) |->
     [Action |-> upds[k].Action,
      NodeID |-> upds[k].Node.NodeID,
      ParentNodeID |-> upds[k].Node.ParentNodeID,
      PreviousNodeID |-> upds[k].Node.PreviousNodeID]]

ExpectedInserts(t) ==
  LET po == PreOrder(t, "", "") IN
    [k \in 1..Len(po) |->
       [Action |-> Insert, NodeID |-> po[k].NodeID, ParentNodeID |-> po[k].ParentNodeID,
        PreviousNodeID |-> po[k].PreviousNodeID]]

C21_RemovalPurgesMaps ==
  [][\A pl \in RemovalPayloads :
       ProcessNodeRemoval(pl) =>
         LET p == ToString(pl.nodeId)
             s == nodeIDMapping[p]
             parentS == nodeIDMapping[ToString(pl.parentNodeId)]
         IN /\ emitted' = Append(emitted, createNodeRemovalUpdate(s, parentS))
            /\ s \notin backendNodeIDs'
            /\ s \notin DOMAIN nodeTypeMapping'
            /\ p \notin DOMAIN nodeIDMapping']_vars


\* The payload names a parent or a previous sibling, other than 0, that the
\* model does not know.
UnknownReference(pl) ==
  \/ pl.parentNodeId # 0 /\ ToString(pl.parentNodeId) \notin DOMAIN nodeIDMapping
  \/ pl.previousNodeId # 0 /\ ToString(pl.previousNodeId) \notin DOMAIN nodeIDMapping

\* C30: a ProcessNodeInsertion whose parent or previous-sibling ID is not 0
\* and not known to the model returns an error, returns no update and leaves
\* nodeIDMapping, backendNodeIDs and nodeTypeMapping as they were; an ID of 0
\* is accepted and comes out in the insert as the empty string.
C30_UnknownReferenceRejected ==
  [][\A pl \in InsertionPayloads :
       ProcessNodeInsertion(pl) =>
         IF UnknownReference(pl)
           THEN /\ domErr' # ""
                /\ emitted' = emitted
                /\ nodeIDMapping' = nodeIDMapping
                /\ backendNodeIDs' = backendNodeIDs
                /\ nodeTypeMapping' = nodeTypeMapping
           ELSE /\ domErr' = ""
                /\ Len(emitted') = Len(emitted) + 1
                /\ pl.parentNodeId = 0 => emitted'[Len(emitted')].Node.ParentNodeID = ""
                /\ pl.previousNodeId = 0 => emitted'[Len(emitted')].Node.PreviousNodeID = ""]_vars

\* On a model that knows one node, inserted with parent and previous sibling
\* 0, an insertion under an unknown parent has just failed.
C30_Witness ==
  /\ domOps = 2
  /\ domErr = "parent node does not exists"
  /\ Len(emitted) = 1
  /\ emitted[1].Action = Insert
  /\ emitted[1].Node.ParentNodeID = ""
  /\ emitted[1].Node.PreviousNodeID = ""
  /\ Cardinality(DOMAIN nodeIDMapping) = 1

\* The same for an unknown previous sibling under a known parent.
C30_WitnessPrevious ==
  /\ domOps = 2
  /\ domErr = "the provided previous node does not exists"
  /\ Len(emitted) = 1


\* The close control frame has been written to the socket.
CloseFrameSent == closePc \in {"closeSent", "closed"}

\* C25: during Close the close control frame is written only after
\* sendMessages has ended and the socket is closed only after receiveMessages
\* has ended; once the close control frame is written no method frame is
\* written to the socket, whatever calls are pending.
C25_CloseOrdering ==
  /\ [](CloseFrameSent => wpc = "ended")
  /\ [](closePc = "closed" => rpc = "ended" /\ ~sockOpen)
  /\ [](closePc # "closed" /\ ~fatal => sockOpen)
  /\ [][CloseFrameSent /\ ~fatal' => wire' = wire]_vars

\* Close has returned on a Connection that wrote a method frame before the
\* close control frame, while another call is still waiting to send.
C25_Witness ==
  /\ closePc = "closed"
  /\ wire # {}
  /\ \E c \in Callers : cpc[c] \in {"fsend", "wsend"}


\* receiveMessages is blocked on its send into the full bufferedEvents while
\* Close waits for recvEnded.
CloseWaitsForBlockedReader ==
  /\ closePc = "closeSent"
  /\ rpc = "enqueue"
  /\ Len(bufferedEvents) = tempBufferSize

\* C26: once Close has signalled the writer on a connected Connection it
\* returns, with sendMessages and receiveMessages ended, provided the socket
\* fails with nothing but the expected close error; also when bufferedEvents
\* is full and nobody calls NextEvent.
C26_CloseReturns ==
  (closePc = "stopping") ~> (fatal \/ (closePc = "closed" /\ wpc = "ended" /\ rpc = "ended"))


\* Caller c waits for the reply to its method while receiveMessages, which
\* has not read that reply yet, is blocked on its send into the full
\* bufferedEvents.
ReaderBlockedBeforeReply(c) ==
  /\ ~fatal
  /\ cpc[c] = "wait"
  /\ cid[c] \in DOMAIN results
  /\ rpc = "enqueue"
  /\ Len(bufferedEvents) = tempBufferSize

\* C27: with bufferedEvents bounded, a caller that waits in
\* InvokeMethodAndGetReturn and does not call NextEvent meanwhile can be in a
\* state where receiveMessages is blocked on the full buffer before it has read
\* the reply; from there, as long as nobody takes an event from the buffer,
\* receiveMessages has no step and the caller keeps waiting.
C27_ReaderConsumerDeadlock ==
  /\ [](\A c \in Callers : ReaderBlockedBeforeReply(c) =>
          ~ENABLED ReaderEnqueue /\ ~ENABLED ReaderRead /\ ~ENABLED ReaderDeliver)
  /\ [][\A c \in Callers :
          ReaderBlockedBeforeReply(c) /\ bufferedEvents' = bufferedEvents /\ ~fatal'
            => ReaderBlockedBeforeReply(c)']_vars

\* The deadlock: the reply of the waiting caller is in flight behind the
\* event receiveMessages cannot enqueue.
C27_Witness ==
  \E c \in Callers :
    /\ ReaderBlockedBeforeReply(c)
    /\ \E k \in 1..Len(inbox) : inbox[k].type = "reply" /\ inbox[k].id = cid[c]


\* C28: after a socket error other than the expected close error the
\* Connection is closed, so that NextEvent returns the end of the stream, and
\* no call is left blocked inside InvokeMethodAndGetReturn or NextEvent: each
\* has returned to its caller.
C28_FatalClosesConnection ==
  fatal => /\ bufClosed
           /\ \A c \in Callers : cpc[c] = "idle"

\* The sink of the method ID is in Connection.results.
Registered(i) == i \in DOMAIN results

\* The method IDs of the calls made with InvokeMethod.
ForgetCalls == {allocated[k].id : k \in {j \in 1..Len(allocated) : ~allocated[j].wait}}

\* C29: the reply to an InvokeMethodAndGetReturn call is never dropped: the
\* sink of the call is in results from before the request goes to toSend
\* until receiveMessages takes it out to deliver the reply, and is gone once
\* the Result is delivered; only replies to InvokeMethod calls are dropped,
\* and a dropped reply adds nothing to bufferedEvents and leaves
\* receiveMessages at its next read.
C29_WaitedReplyNeverDropped ==
  /\ [](dropped \cap WaitCalls = {})
  /\ [](dropped \subseteq ForgetCalls)
  /\ [](\A c \in Callers :
          /\ cpc[c] = "wsend" => Registered(cid[c])
          /\ cpc[c] = "wait" =>
               \/ Registered(cid[c])
               \/ rpc = "deliver" /\ rpend.id = cid[c] /\ rpend.to = c)
  /\ [](\A k \in 1..Len(delivered) : ~Registered(delivered[k].id))
  /\ [][dropped' # dropped /\ ~fatal' =>
          /\ rpc' = "read"
          /\ bufferedEvents' = bufferedEvents
          /\ nextEvents' = nextEvents]_vars

\* A reply to an InvokeMethod call has been dropped and a reply to an
\* InvokeMethodAndGetReturn call has been delivered after it.
C29_Witness ==
  /\ dropped # {}
  /\ delivered # <<>>
  /\ \E i \in dropped : delivered[Len(delivered)].id > i


\* addInstance has returned from the call in which it took instance ID i.
ProducerLeft(i) == i < nextInstanceID /\ (aid # i \/ apc = "start")

\* The ways an instance ends: New made the directory and could not start
\* the process; Wait failed or ran into its deadline; Connect used up its
\* dials; DisconnectAndTerminate ran, from the idle timer or from a handler.
SpawnFailed(i) == ProducerLeft(i) /\ Command[i] = "none"
WaitFailed(i) == ProducerLeft(i) /\ Command[i] # "none" /\ ~waitPassed[i]
TerminalOutcome(i) ==
  SpawnFailed(i) \/ WaitFailed(i) \/ connectFailed[i] \/ datReturned[i]

\* C24: an instance that has reached one of its terminal outcomes has no
\* user directory left.
C24_DirectoryRemovedAtEveryEnd ==
  \A i \in InstanceIDs : TerminalOutcome(i) => ~userDir[i]

\* The same for each outcome apart.
DirectoryLeftBySpawnFailure == \E i \in InstanceIDs : SpawnFailed(i) /\ userDir[i]
DirectoryLeftByWaitFailure == \E i \in InstanceIDs : WaitFailed(i) /\ userDir[i]
DirectoryLeftByConnectFailure == \E i \in InstanceIDs : connectFailed[i] /\ userDir[i]


\* The stream handler has left its event loop while the Connection of its
\* instance was open.
StreamEndedOnOpenConnection ==
  /\ spc = "events"
  /\ spc' # "events"
  /\ devtoolsConn[chromeID] # "nil"

\* C22: once the stream handler has consumed
\* Emulation.virtualTimeBudgetExpired it handles no further event and writes
\* no further batch, and when it has returned its instance is disconnected,
\* killed and out of the manager's map; while the Connection is open no event
\* but this one makes the handler leave its loop, a failed write apart.
C22_OnlyBudgetExpiryEndsStream ==
  /\ [][sEnd = EmulationVirtualTimeBudgetExpired =>
          sFrames' = sFrames /\ sEnd' = sEnd /\ spc' \in {"unwindAll", "returned"}]_vars
  /\ [](spc = "returned" /\ sEnd = EmulationVirtualTimeBudgetExpired =>
          /\ devtoolsConn[chromeID] = "nil"
          /\ killSent[chromeID]
          /\ chromeID \notin instances)
  /\ [][StreamEndedOnOpenConnection =>
          sEnd' \in {EmulationVirtualTimeBudgetExpired, "write error"}]_vars

\* The part of C22 about Emulation.virtualTimeBudgetExpired itself.
BudgetExpiryEndsStream ==
  /\ [][sEnd = EmulationVirtualTimeBudgetExpired =>
          sFrames' = sFrames /\ sEnd' = sEnd /\ spc' \in {"unwindAll", "returned"}]_vars
  /\ [](spc = "returned" /\ sEnd = EmulationVirtualTimeBudgetExpired =>
          /\ devtoolsConn[chromeID] = "nil"
          /\ killSent[chromeID]
          /\ chromeID \notin instances)

\* The stream handler has returned on DOM.documentUpdated, because
\* GetDOMInstance or GenerateInitialDOM failed, after it had written a batch.
StreamEndedByDocumentUpdated ==
  /\ spc = "returned"
  /\ sEnd = "translation error"
  /\ sFrames > 0

\* The status codes the slow-script handler has written end with 200.
SlowScriptWrote200 ==
  /\ slowWritten' # slowWritten
  /\ slowWritten'[Len(slowWritten')] = StatusOK

\* C23: the handler of a slow-script request for an instance ID that was
\* handed out writes 200 and nothing else, and does not write it before
\* pageLoadCompletes of that instance is closed; also when the stream handler
\* has returned and the instance is out of the map before the request comes.
C23_SlowScriptResponds200 ==
  /\ [][SlowScriptWrote200 => pageLoadCompletes[chromeID] = "closed"]_vars
  /\ [](sspc = "returned" => slowWritten = <<StatusOK>>)

\* The part of C23 about the page-load gate.
SlowScriptWaitsForGate ==
  [][SlowScriptWrote200 => pageLoadCompletes[chromeID] = "closed"]_vars

\* The slow-script request came after the stream handler had returned and
\* got 500; it came after the idle timer had torn the instance down, and got
\* 500 with pageLoadCompletes closed.
SlowScriptAfterRelease ==
  /\ sspc = "returned"
  /\ slowWritten = <<StatusInternalServerError>>
  /\ spc = "returned"
  /\ sEnd = EmulationVirtualTimeBudgetExpired
SlowScriptAfterTimer ==
  /\ sspc = "returned"
  /\ slowWritten = <<StatusInternalServerError>>
  /\ spc = "client"
  /\ chromeID \in instances
  /\ pageLoadCompletes[chromeID] = "closed"


\* The updates the step has appended to the stream.
Returned == SubSeq(emitted', Len(emitted) + 1, Len(emitted'))

\* C31: GenerateInitialDOM for a new document on a model that has already
\* walked a document starts from empty maps: every node of the new tree, none
\* of which is below a script element, comes out as an insert, whatever was
\* emitted before.
C31_NewDocumentEmittedInFull ==
  [][\A t \in ScriptFreeTrees :
       GenerateInitialDOM(t) => Placement(Returned) = ExpectedInserts(t)]_vars

\* C34: every backend node ID that is a key of nodeTypeMapping is in
\* backendNodeIDs.
C34_KindOfWithinKnownStable == DOMAIN nodeTypeMapping \subseteq backendNodeIDs

\* The inserts of the stream before position k that put node id into the
\* document and were not followed, before k, by the removal of id.
LiveInsertsBefore(id, k) ==
  {j \in 1..(k - 1) :
     /\ emitted[j].Action = Insert
     /\ emitted[j].Node.NodeID = id
     /\ \A r \in (j + 1)..(k - 1) :
          ~(emitted[r].Action = Remove /\ emitted[r].Node.NodeID = id)}

\* C35: in the stream of one model, the parent and the previous sibling an
\* insert names, when not empty, were inserted earlier in the stream and not
\* removed since.
C35_InsertsAttachToEmittedNodes ==
  \A k \in Inserts :
    /\ emitted[k].Node.ParentNodeID # "" =>
         LiveInsertsBefore(emitted[k].Node.ParentNodeID, k) # {}
    /\ emitted[k].Node.PreviousNodeID # "" =>
         LiveInsertsBefore(emitted[k].Node.PreviousNodeID, k) # {}


\* C32: in the stream handler an event whose translation gives an error
\* writes nothing and leaves the stream open: the handler stays in its event
\* loop, for DOM.documentUpdated as for the other events.
C32_TranslationErrorKeepsStreamOpen ==
  [][spc = "events" /\ sErr' = "translation error" =>
       sFrames' = sFrames /\ spc' = "events"]_vars

\* C33: once the writing of an update batch has failed the stream is over,
\* whatever the event was: the handler has left its event loop, consumes no
\* further event and writes no further batch.
C33_WriteErrorEndsStream ==
  /\ [](sErr = "write error" => spc \in {"unwindAll", "returned"})
  /\ [][sErr = "write error" => sFrames' = sFrames /\ sErr' = sErr]_vars


\* stream ServeHTTP, lines 84-104, for a request whose id is not the ID of an
\* instance that GetNewInstance has returned: RemoveInstance(i) is deferred
\* before anything is checked.  When i is not in the map GetInstance fails
\* and the handler writes 502; when i is in the map WaitUntilChromeReady
\* blocks until ready is closed, and ResetTimeout then calls Stop on the nil
\* timeoutTimer and panics.  net/http recovers the panic and the deferred
\* RemoveInstance runs.
StreamServeHTTPUnacquired(i) ==
  /\ i \in instances => timeoutTimer[i] = "nil" /\ ready[i]
  /\ instances' = instances \ {i}
  /\ urls' = urls \ {i}
  /\ UNCHANGED <<nextInstanceID, instanceQueue, addVars, instVars, timeoutTimer, resetVars,
                 connectHist, killSent, datReturned>>
  /\ UNCHANGED notChrome

\* InstanceManager.GetNewInstance when the ID it receives from the queue is
\* no longer in the map: line 434 writes the URL, im.instances[nextInstanceID]
\* is nil and InitializeTimeout panics on it in line 435; the panic ends the
\* request that called GetNewInstance, and no timer is started.
GetNewInstanceMissing ==
  /\ instanceQueue # <<>>
  /\ Head(instanceQueue) \notin instances
  /\ instanceQueue' = Tail(instanceQueue)
  /\ urls' = urls \cup {Head(instanceQueue)}
  /\ UNCHANGED <<nextInstanceID, instances, addVars, instVars, timeoutTimer, resetVars,
                 connectHist, killSent, datReturned>>
  /\ UNCHANGED notChrome

\* The instance manager with stream requests that carry any id.
NextRelease ==
  \/ NextChrome
  \/ \E i \in InstanceIDs : StreamServeHTTPUnacquired(i)
  \/ GetNewInstanceMissing

SpecRelease == Init /\ [][NextRelease]_vars

\* C36: every ID that GetNewInstance receives from the instance queue is a
\* key of the instance map at that moment, whatever RemoveInstance calls
\* came before, those of stream requests with an id of their own choosing
\* included.
C36_DequeuedIDInMap ==
  [][instanceQueue # <<>> /\ instanceQueue' = Tail(instanceQueue) =>
       Head(instanceQueue) \in instances]_vars


\* The goroutine of lines 73-80 is at a send on statusCodeChan, or will come
\* to one: at the send of 502 after a failed GET, at the send of the status
\* code of a response, or still in http.Get.
ProbeWillSend ==
  \/ probe \in {"get", "send502"}
  \/ probe = "sendStatus" /\ originResponse # 0

\* C37: the goroutine that gets the status code of the origin never sends on
\* statusCodeChan after the handler has closed it, on whatever path the
\* handler returned and whatever http.Get gave, and it sends at most one
\* value: once ServeHTTP has received a value no send is left.
C37_ProbeNeverSendsOnClosedChannel ==
  /\ [](statusCodeChan = "closed" => ~ProbeWillSend)
  /\ [][hpc = "statusCode" /\ hpc' # "statusCode" => ~ProbeWillSend']_vars


\* C38: Instance.NextEvent never calls NextEvent on a nil devtoolsConn: a
\* call that runs together with DisconnectAndTerminate, or after it, gives
\* io.EOF to the goroutine of the batch handler and to the stream handler.
C38_NextEventAfterTeardownGivesEOF ==
  /\ loopPc # "panic"
  /\ sEnd # "panic"


\* C39: no InvokeMethod or InvokeMethodAndGetReturn call stays blocked for
\* ever: a call that is at its send on toSend, or waits for its Result, once
\* Close has returned, whether it began before Close or after it, returns to
\* its caller.
C39_CallsReturnAfterClose ==
  \A c \in Callers :
    (closePc = "closed" /\ cpc[c] \in {"fsend", "wsend", "wait"}) ~> (cpc[c] = "idle" \/ fatal)


\* Instance i is fully terminated: its Connection is closed, its process is
\* killed and its user directory is removed.
FullyTerminated(i) ==
  /\ devtoolsConn[i] = "nil"
  /\ Command[i] = "killed"
  /\ ~userDir[i]

\* C40: every instance that GetNewInstance has returned, whose idle timer
\* therefore runs, is eventually fully terminated, also when no handler ever
\* tears it down; a ResetTimeout call that holds the timer stopped is the
\* only thing that puts the termination off.
C40_AcquiredInstanceTerminated ==
  \A i \in InstanceIDs :
    (timeoutTimer[i] = "armed") ~> (FullyTerminated(i) \/ ResetInProgress(i))
=============================================================================
